---- MODULE Spec2Model ----
(***************************************************************************)
(* RealityLib (realitylib_vr.c, realitylib_hands.c, main.c): the session   *)
(* lifecycle, the frame bracket, the input synchroniser and the deferred    *)
(* draw-command buffer, as a state machine.                                 *)
(*                                                                         *)
(* Each public function of the library is one action that performs the     *)
(* whole function, the static helpers it calls included.  The OpenXR/EGL    *)
(* runtime is the environment: the outcome of a runtime call (success or    *)
(* failure, the pose it reports, the events it queues) is an input of the   *)
(* action, drawn from a small set.                                          *)
(*                                                                         *)
(* Floats are modelled by integers: every input is chosen so that the      *)
(* arithmetic the code performs on it is exact (integer coordinates, yaw   *)
(* in multiples of 90 degrees, unit quaternions with integer components).  *)
(***************************************************************************)
EXTENDS Integers, Sequences, FiniteSets, TLC

\* ------------------------------------------------------------------ bounds

\* frames the runtime paces (xrWaitFrame calls) and BeginVRMode/EndVRMode calls
MaxFrames == 2
\* events the runtime holds pending between two polls
MaxQueue == 1
\* application draw calls in a run
MaxDraws == 2

\* ------------------------------------------------------- program constants

MAX_VIEWS == 2
MAX_DRAW_COMMANDS == 4096

\* ---------------------------------------------------------------- helpers

Min(a, b) == IF a < b THEN a ELSE b

Vec3Zero == <<0, 0, 0>>

QuatZero == <<0, 0, 0, 0>>

QuatIdentity == <<0, 0, 0, 1>>

\* ------------------------------------------------- runtime and GL resources

\* The handle fields of VRState (and the GL objects and image arrays kept per
\* eye), by name.
XrResources == {"instance", "session", "stageSpace", "headSpace", "leftHandSpace", "rightHandSpace", "actionSet", "swapchain0", "swapchain1"}

EglResources == {"eglDisplay", "eglContext", "eglSurface"}

GlResources == {"framebuffer0", "framebuffer1", "depthBuffer0", "depthBuffer1"}

HeapResources == {"swapchainImages0", "swapchainImages1"}

Resources == XrResources \cup EglResources \cup GlResources \cup HeapResources

\* The hand trackers of htState.handTracker, children of the session.
HandTrackerResources == {"handTracker0", "handTracker1"}

AllResources == Resources \cup HandTrackerResources

\* The object a resource is created from: destroying the parent destroys it
\* (xrDestroyInstance and xrDestroySession destroy their child handles,
\* eglTerminate releases the display's contexts and surfaces, and GL objects
\* die with their context).
Parent(r) ==
    CASE r \in {"eglContext", "eglSurface"} -> "eglDisplay"
      [] r \in GlResources -> "eglContext"
      [] r \in {"session", "actionSet"} -> "instance"
      [] r \in {"stageSpace", "headSpace", "leftHandSpace", "rightHandSpace", "swapchain0", "swapchain1"} -> "session"
      [] r \in HandTrackerResources -> "session"
      [] OTHER -> "none"

Descendants(r) ==
    {c \in AllResources : Parent(c) = r \/ (Parent(c) \in AllResources /\ Parent(Parent(c)) = r)}

\* The resource state the lifecycle functions thread through: h is the handle
\* fields of vrState (TRUE: non-null), viewCount is vrState.viewCount, live
\* is what is alive in the runtime, faults the handles that were destroyed
\* while not alive (twice, or after their parent), log the order of creations
\* and destructions, failing the resources the runtime fails to destroy.
NoHandles == [r \in Resources |-> FALSE]

Create(st, r) ==
    [st EXCEPT !.h[r] = TRUE, !.live = @ \cup {r}, !.log = Append(@, <<"create", r>>)]

\* xrDestroy*, eglDestroy*, glDelete*, free on the handle r.  eglTerminate of
\* a display that is not initialized is allowed by EGL; any other destruction
\* of something that is not alive is a fault.
Destroy(st, r) ==
    IF r \in st.failing
    THEN [st EXCEPT !.faults = IF r \in st.live \/ r = "eglDisplay" THEN @ ELSE @ \cup {r},
                    !.log = Append(Append(@, <<"destroy", r>>), <<"failed", r>>)]
    ELSE [st EXCEPT !.live = @ \ ({r} \cup Descendants(r)),
                    !.faults = IF r \in st.live \/ r = "eglDisplay" THEN @ ELSE @ \cup {r},
                    !.log = Append(@, <<"destroy", r>>)]

\* if (handle != NULL) { destroy(handle); handle = NULL; }
DestroyIfSet(st, r) ==
    IF st.h[r] THEN [Destroy(st, r) EXCEPT !.h[r] = FALSE] ELSE st

Failed(st) == [ok |-> FALSE, st |-> st]

\* The call named step has failed: the runtime's log records it.
FailedCall(st, step) == [st EXCEPT !.log = Append(@, <<"failed", step>>)]

FailedAt(st, step) == Failed(FailedCall(st, step))

Succeeded(st) == [ok |-> TRUE, st |-> st]

\* The calls of InitApp that can fail, in the order InitApp makes them; the
\* input f of the lifecycle functions is the first one that fails ("none":
\* every call succeeds).
InitSteps == <<"eglGetDisplay", "eglInitialize", "eglChooseConfig", "eglCreateContext", "eglMakeCurrent", "xrInitializeLoaderKHR", "xrCreateInstance", "xrGetSystem", "foundStereo", "xrCreateSession", "xrCreateReferenceSpaceStage", "xrCreateReferenceSpaceHead", "xrCreateActionSet", "xrCreateAction", "xrCreateActionSpaceLeft", "xrCreateActionSpaceRight", "xrAttachSessionActionSets", "xrCreateSwapchain0", "xrCreateSwapchain1">>

FailPoints == {InitSteps[i] : i \in 1..Len(InitSteps)} \cup {"none"}

InitializeEGL(st, f) ==
    IF f = "eglGetDisplay" THEN FailedAt(st, f)
    ELSE LET s1 == [st EXCEPT !.h["eglDisplay"] = TRUE] IN
      IF f = "eglInitialize" THEN FailedAt(s1, f)
      ELSE LET s2 == Create(s1, "eglDisplay") IN
        IF f \in {"eglChooseConfig", "eglCreateContext"} THEN FailedAt(s2, f)
        ELSE LET s3 == Create(Create(s2, "eglContext"), "eglSurface") IN
          IF f = "eglMakeCurrent" THEN FailedAt(s3, f) ELSE Succeeded(s3)

ShutdownEGL(st) ==
    LET s1 == IF st.h["eglDisplay"]
              THEN LET a == IF st.h["eglContext"] THEN Destroy(st, "eglContext") ELSE st
                       b == IF a.h["eglSurface"] THEN Destroy(a, "eglSurface") ELSE a
                   IN Destroy(b, "eglDisplay")
              ELSE st
    IN [s1 EXCEPT !.h["eglDisplay"] = FALSE, !.h["eglContext"] = FALSE, !.h["eglSurface"] = FALSE]

\* The result of xrInitializeLoaderKHR is not looked at.
InitializeOpenXR(st, f) ==
    LET s0 == IF f = "xrInitializeLoaderKHR" THEN FailedCall(st, f) ELSE st IN
    IF f = "xrCreateInstance" THEN FailedAt(s0, f)
    ELSE LET s1 == Create(s0, "instance") IN
      IF f \in {"xrGetSystem", "foundStereo"} THEN FailedAt(s1, f)
      ELSE Succeeded([s1 EXCEPT !.viewCount = Min(2, MAX_VIEWS)])

ShutdownOpenXR(st) == DestroyIfSet(st, "instance")

Eye(prefix, i) == IF i = 0 THEN prefix \o "0" ELSE prefix \o "1"

RECURSIVE CreateSwapchainsFrom(_, _, _)
CreateSwapchainsFrom(st, f, i) ==
    IF i >= st.viewCount THEN Succeeded(st)
    ELSE IF f = Eye("xrCreateSwapchain", i) THEN FailedAt(st, f)
    ELSE CreateSwapchainsFrom(
            Create(Create(Create(Create(st, Eye("swapchain", i)), Eye("swapchainImages", i)),
                          Eye("framebuffer", i)), Eye("depthBuffer", i)),
            f, i + 1)

CreateSwapchains(st, f) == CreateSwapchainsFrom(st, f, 0)

RECURSIVE DestroySwapchainsFrom(_, _)
DestroySwapchainsFrom(st, i) ==
    IF i >= st.viewCount THEN st
    ELSE DestroySwapchainsFrom(
            DestroyIfSet(DestroyIfSet(DestroyIfSet(DestroyIfSet(st,
                Eye("framebuffer", i)), Eye("depthBuffer", i)),
                Eye("swapchainImages", i)), Eye("swapchain", i)),
            i + 1)

DestroySwapchains(st) == DestroySwapchainsFrom(st, 0)

CreateActions(st, f) ==
    IF f = "xrCreateActionSet" THEN FailedAt(st, f)
    ELSE LET s1 == Create(st, "actionSet") IN
      IF f \in {"xrCreateAction", "xrCreateActionSpaceLeft"} THEN FailedAt(s1, f)
      ELSE LET s2 == Create(s1, "leftHandSpace") IN
        IF f = "xrCreateActionSpaceRight" THEN FailedAt(s2, f)
        ELSE LET s3 == Create(s2, "rightHandSpace") IN
          IF f = "xrAttachSessionActionSets" THEN FailedAt(s3, f) ELSE Succeeded(s3)

CreateSession(st, f) ==
    IF f = "xrCreateSession" THEN FailedAt(st, f)
    ELSE LET s1 == Create(st, "session") IN
      IF f = "xrCreateReferenceSpaceStage" THEN FailedAt(s1, f)
      ELSE LET s2 == Create(s1, "stageSpace") IN
        IF f = "xrCreateReferenceSpaceHead" THEN FailedAt(s2, f)
        ELSE LET s3 == Create(s2, "headSpace")
                 a == CreateActions(s3, f)
             IN IF ~a.ok THEN Failed(a.st) ELSE CreateSwapchains(a.st, f)

\* DestroySession giving up at the first destruction that fails.
DestroyUnlessFailed(st, r) ==
    IF st.log # <<>> /\ st.log[Len(st.log)][1] = "failed" THEN st ELSE DestroyIfSet(st, r)

DestroySession_StopsAtFailure(st) ==
    LET s1 == DestroySwapchains(st)
        s2 == DestroyUnlessFailed(s1, "leftHandSpace")
        s3 == DestroyUnlessFailed(s2, "rightHandSpace")
        s4 == DestroyUnlessFailed(s3, "stageSpace")
        s5 == DestroyUnlessFailed(s4, "headSpace")
        s6 == DestroyUnlessFailed(s5, "actionSet")
    IN DestroyUnlessFailed(s6, "session")

\* DestroySession destroying in the reverse of the order of creation.
DestroySession_ReverseOfCreation(st) ==
    LET s1 == DestroySwapchains(st)
        s2 == DestroyIfSet(s1, "rightHandSpace")
        s3 == DestroyIfSet(s2, "leftHandSpace")
        s4 == DestroyIfSet(s3, "actionSet")
        s5 == DestroyIfSet(s4, "headSpace")
        s6 == DestroyIfSet(s5, "stageSpace")
    IN DestroyIfSet(s6, "session")

DestroySession(st) ==
    LET s1 == DestroySwapchains(st)
        s2 == DestroyIfSet(s1, "leftHandSpace")
        s3 == DestroyIfSet(s2, "rightHandSpace")
        s4 == DestroyIfSet(s3, "stageSpace")
        s5 == DestroyIfSet(s4, "headSpace")
        s6 == DestroyIfSet(s5, "actionSet")
    IN DestroyIfSet(s6, "session")

\* ------------------------------------------------------------ matrix maths

\* A Matrix is m0..m15, as a function on 0..15.
MatrixIdentity == [i \in 0..15 |-> IF i \in {0, 5, 10, 15} THEN 1 ELSE 0]

MatrixZero == [i \in 0..15 |-> 0]

MatrixMultiply(left, right) ==
    [i \in 0..15 |->
        LET r == i \div 4
            c == i % 4
        IN left[4 * r] * right[c] + left[4 * r + 1] * right[4 + c]
           + left[4 * r + 2] * right[8 + c] + left[4 * r + 3] * right[12 + c]]

QuaternionToMatrix(q) ==
    LET x == q[1]
        y == q[2]
        z == q[3]
        w == q[4]
    IN [MatrixIdentity EXCEPT
            ![0] = 1 - 2 * (y * y + z * z),
            ![1] = 2 * (x * y + w * z),
            ![2] = 2 * (x * z - w * y),
            ![4] = 2 * (x * y - w * z),
            ![5] = 1 - 2 * (x * x + z * z),
            ![6] = 2 * (y * z + w * x),
            ![8] = 2 * (x * z + w * y),
            ![9] = 2 * (y * z - w * x),
            ![10] = 1 - 2 * (x * x + y * y)]

\* cosf and sinf of an angle given in degrees, exact on multiples of 90.
CosDeg(d) == CASE d % 360 = 0 -> 1 [] d % 360 = 180 -> -1 [] OTHER -> 0

SinDeg(d) == CASE d % 360 = 90 -> 1 [] d % 360 = 270 -> -1 [] OTHER -> 0

CreateRotationY(deg) ==
    [MatrixIdentity EXCEPT ![0] = CosDeg(deg), ![2] = SinDeg(deg),
                           ![8] = -SinDeg(deg), ![10] = CosDeg(deg)]

\* CreateViewMatrix adding the player position before it rotates by the yaw.
CreateViewMatrix_TranslateThenRotate(pose, playerPosition, playerYaw) ==
    LET q == <<-pose.orientation[1], -pose.orientation[2], -pose.orientation[3], pose.orientation[4]>>
        headsetRot == QuaternionToMatrix(q)
        headsetPos == <<pose.position[1] + playerPosition[1], pose.position[2] + playerPosition[2],
                        pose.position[3] + playerPosition[3]>>
        cosYaw == CosDeg(playerYaw)
        sinYaw == SinDeg(playerYaw)
        finalPos == <<-(headsetPos[1] * cosYaw - headsetPos[3] * sinYaw),
                      -headsetPos[2],
                      -(headsetPos[1] * sinYaw + headsetPos[3] * cosYaw)>>
        combinedRot == MatrixMultiply(headsetRot, CreateRotationY(-playerYaw))
        transformedPos == <<combinedRot[0] * finalPos[1] + combinedRot[4] * finalPos[2] + combinedRot[8] * finalPos[3],
                            combinedRot[1] * finalPos[1] + combinedRot[5] * finalPos[2] + combinedRot[9] * finalPos[3],
                            combinedRot[2] * finalPos[1] + combinedRot[6] * finalPos[2] + combinedRot[10] * finalPos[3]>>
    IN [combinedRot EXCEPT ![12] = transformedPos[1], ![13] = transformedPos[2], ![14] = transformedPos[3]]

\* CreateViewMatrix adding the player position to the headset position as it
\* is, not rotated by the yaw.
CreateViewMatrix_PositionNotRotated(pose, playerPosition, playerYaw) ==
    LET q == <<-pose.orientation[1], -pose.orientation[2], -pose.orientation[3], pose.orientation[4]>>
        headsetRot == QuaternionToMatrix(q)
        headsetPos == pose.position
        finalPos == <<-(headsetPos[1] + playerPosition[1]),
                      -(headsetPos[2] + playerPosition[2]),
                      -(headsetPos[3] + playerPosition[3])>>
        combinedRot == MatrixMultiply(headsetRot, CreateRotationY(-playerYaw))
        transformedPos == <<combinedRot[0] * finalPos[1] + combinedRot[4] * finalPos[2] + combinedRot[8] * finalPos[3],
                            combinedRot[1] * finalPos[1] + combinedRot[5] * finalPos[2] + combinedRot[9] * finalPos[3],
                            combinedRot[2] * finalPos[1] + combinedRot[6] * finalPos[2] + combinedRot[10] * finalPos[3]>>
    IN [combinedRot EXCEPT ![12] = transformedPos[1], ![13] = transformedPos[2], ![14] = transformedPos[3]]

\* The view matrix of a runtime view pose under the player offset.
CreateViewMatrix(pose, playerPosition, playerYaw) ==
    LET q == <<-pose.orientation[1], -pose.orientation[2], -pose.orientation[3], pose.orientation[4]>>
        headsetRot == QuaternionToMatrix(q)
        headsetPos == pose.position
        cosYaw == CosDeg(playerYaw)
        sinYaw == SinDeg(playerYaw)
        rotatedHeadsetPos == <<headsetPos[1] * cosYaw - headsetPos[3] * sinYaw,
                               headsetPos[2],
                               headsetPos[1] * sinYaw + headsetPos[3] * cosYaw>>
        finalPos == <<-(rotatedHeadsetPos[1] + playerPosition[1]),
                      -(rotatedHeadsetPos[2] + playerPosition[2]),
                      -(rotatedHeadsetPos[3] + playerPosition[3])>>
        playerYawMatrix == CreateRotationY(-playerYaw)
        combinedRot == MatrixMultiply(headsetRot, playerYawMatrix)
        transformedPos == <<combinedRot[0] * finalPos[1] + combinedRot[4] * finalPos[2] + combinedRot[8] * finalPos[3],
                            combinedRot[1] * finalPos[1] + combinedRot[5] * finalPos[2] + combinedRot[9] * finalPos[3],
                            combinedRot[2] * finalPos[1] + combinedRot[6] * finalPos[2] + combinedRot[10] * finalPos[3]>>
    IN [combinedRot EXCEPT ![12] = transformedPos[1], ![13] = transformedPos[2], ![14] = transformedPos[3]]

\* The projection matrix has fractional entries: each is a pair
\* <<numerator, denominator>>.  A field of view is given by the tangents of
\* its four half-angles; nearZ = 0.01 and farZ = 100 are in hundredths.
NearZ == 1

FarZ == 10000

ProjectionZero == [i \in 0..15 |-> <<0, 1>>]

CreateProjectionMatrix(fov, nearZ, farZ) ==
    LET tanWidth == fov.tanRight - fov.tanLeft
        tanHeight == fov.tanUp - fov.tanDown
    IN [ProjectionZero EXCEPT
            ![0] = <<2, tanWidth>>,
            ![5] = <<2, tanHeight>>,
            ![8] = <<fov.tanRight + fov.tanLeft, tanWidth>>,
            ![9] = <<fov.tanUp + fov.tanDown, tanHeight>>,
            ![10] = <<-(farZ + nearZ), farZ - nearZ>>,
            ![11] = <<-1, 1>>,
            ![14] = <<-(2 * farZ * nearZ), 100 * (farZ - nearZ)>>]

\* ------------------------------------------------------------ program state

VARIABLES
    pc,               \* where the application is (android_main, or the API phase)
    vrState,          \* static VRState vrState
    drawCommands,     \* drawCommands[0 .. drawCommandCount-1]
    htState,          \* static HandTrackingState htState
    live,             \* runtime: the resources alive
    faults,           \* runtime: handles destroyed while not alive
    rtLog,            \* runtime: creations and destructions, in order
    eventQueue,       \* runtime: events pending for xrPollEvent
    destroyRequested, \* android_app.destroyRequested
    rtClock,          \* runtime: the last predictedDisplayTime handed out
    xrCalls,          \* history: runtime calls since the last AppShouldClose began
    replayed,         \* history: what the last EndVRMode drew for each eye
    drawEpochs,       \* history: for each recorded command, the number of BeginVRMode calls before it
    apiCalls          \* history: calls of each API function (bounds the model)

vars == <<pc, vrState, drawCommands, htState, live, faults, rtLog, eventQueue, destroyRequested, rtClock, xrCalls, replayed, drawEpochs, apiCalls>>

drawCommandCount == Len(drawCommands)

ZeroController ==
    [position |-> Vec3Zero, orientation |-> QuatZero, velocity |-> Vec3Zero,
     angularVelocity |-> Vec3Zero, trigger |-> 0, grip |-> 0, thumbstickX |-> 0,
     thumbstickY |-> 0, thumbstickClick |-> FALSE, buttonA |-> FALSE, buttonB |-> FALSE,
     menuButton |-> FALSE, isTracking |-> FALSE]

ZeroHeadset ==
    [position |-> Vec3Zero, orientation |-> QuatZero,
     leftEyeProjection |-> ProjectionZero, rightEyeProjection |-> ProjectionZero,
     leftEyeView |-> MatrixZero, rightEyeView |-> MatrixZero,
     leftEyePosition |-> Vec3Zero, rightEyePosition |-> Vec3Zero]

ZeroView ==
    [pose |-> [position |-> Vec3Zero, orientation |-> QuatZero],
     fov |-> [tanLeft |-> 0, tanRight |-> 0, tanUp |-> 0, tanDown |-> 0]]

ColorZero == <<0, 0, 0, 0>>

\* static VRState vrState = {0}, and memset(&vrState, 0, sizeof(vrState))
ZeroVRState ==
    [h |-> NoHandles, viewCount |-> 0, views |-> [i \in 0..1 |-> ZeroView],
     sessionRunning |-> FALSE, sessionFocused |-> FALSE, shouldExit |-> FALSE,
     sessionState |-> "UNKNOWN", predictedDisplayTime |-> 0,
     controllers |-> [i \in 0..1 |-> ZeroController], headset |-> ZeroHeadset,
     clearColor |-> ColorZero, currentEye |-> 0,
     currentViewMatrix |-> MatrixZero, currentProjectionMatrix |-> ProjectionZero,
     playerPosition |-> Vec3Zero, playerYaw |-> 0, initialized |-> FALSE]

\* enum HandJoint: the joints DetectGestures reads, and their number.
HAND_JOINT_PALM == 0

HAND_JOINT_WRIST == 1

HAND_JOINT_THUMB_TIP == 5

HAND_JOINT_INDEX_TIP == 10

HAND_JOINT_MIDDLE_TIP == 15

HAND_JOINT_RING_TIP == 20

HAND_JOINT_LITTLE_TIP == 25

HAND_JOINT_COUNT == 26

\* A VRHandJoint; joint positions and radii are in millimetres.
ZeroJoint == [position |-> Vec3Zero, orientation |-> QuatZero, radius |-> 0, isValid |-> FALSE]

\* A VRHand; pinchStrength is a fraction <<numerator, denominator>>.
ZeroHand ==
    [joints |-> [j \in 0..(HAND_JOINT_COUNT - 1) |-> ZeroJoint],
     palmPosition |-> Vec3Zero, palmOrientation |-> QuatZero,
     palmNormal |-> Vec3Zero, palmDirection |-> Vec3Zero,
     isTracking |-> FALSE, isActive |-> FALSE,
     isPinching |-> FALSE, pinchStrength |-> <<0, 1>>,
     isFist |-> FALSE, isPointing |-> FALSE, isOpen |-> FALSE]

\* static HandTrackingState htState = {0}
ZeroHTState ==
    [extensionSupported |-> FALSE, initialized |-> FALSE,
     handTracker |-> [i \in 0..1 |-> FALSE], hands |-> [i \in 0..1 |-> ZeroHand]]

NoReplay == [i \in 0..1 |-> [ran |-> FALSE, image |-> -1, clear |-> <<>>, view |-> MatrixZero, proj |-> ProjectionZero, draws |-> <<>>]]

ApiNames == {"BeginVRMode", "EndVRMode", "SyncControllers", "UpdateHandTracking", "Draw"}

Init ==
    /\ pc = "start"
    /\ vrState = ZeroVRState
    /\ drawCommands = <<>>
    /\ htState = ZeroHTState
    /\ live = {}
    /\ faults = {}
    /\ rtLog = <<>>
    /\ eventQueue = <<>>
    /\ destroyRequested = FALSE
    /\ rtClock = 0
    /\ xrCalls = <<>>
    /\ replayed = NoReplay
    /\ drawEpochs = <<>>
    /\ apiCalls = [n \in ApiNames |-> 0]

\* The resource state of the lifecycle functions, read from and written to
\* the variables.
ResState(vs) == [h |-> vs.h, viewCount |-> vs.viewCount, live |-> live, faults |-> faults, log |-> rtLog, failing |-> {}]

DefaultClearColor == <<30, 30, 50, 255>>

\* InitApp with f the first runtime call that fails: the resource state on
\* return, and the value returned.
InitAppResult(st, f) ==
    LET r1 == InitializeEGL(st, f)
        r2 == InitializeOpenXR(r1.st, f)
        r3 == CreateSession(r2.st, f)
    IN IF ~r1.ok THEN Failed(r1.st)
       ELSE IF ~r2.ok THEN Failed(ShutdownEGL(r2.st))
       ELSE IF ~r3.ok THEN Failed(ShutdownEGL(ShutdownOpenXR(r3.st)))
       ELSE Succeeded(r3.st)

InitApp(f) ==
    LET zeroed == [ZeroVRState EXCEPT !.clearColor = DefaultClearColor]
        r == InitAppResult(ResState(zeroed), f)
    IN /\ vrState' = [zeroed EXCEPT !.h = r.st.h, !.viewCount = r.st.viewCount, !.initialized = r.ok]
       /\ live' = r.st.live
       /\ faults' = r.st.faults
       /\ rtLog' = r.st.log
       /\ UNCHANGED <<drawCommands, htState, eventQueue, destroyRequested, rtClock, xrCalls, replayed, drawEpochs, apiCalls>>

CloseAppResult(st) == ShutdownEGL(ShutdownOpenXR(DestroySession(st)))

\* CloseApp while the runtime fails to destroy the resources of failing.
CloseAppFailing(failing) ==
    LET r == CloseAppResult([ResState(vrState) EXCEPT !.failing = failing])
    IN /\ vrState' = [vrState EXCEPT !.h = r.h, !.initialized = FALSE]
       /\ live' = r.live
       /\ faults' = r.faults
       /\ rtLog' = r.log
       /\ UNCHANGED <<drawCommands, htState, eventQueue, destroyRequested, rtClock, xrCalls, replayed, drawEpochs, apiCalls>>

CloseApp == CloseAppFailing({})

\* ------------------------------------------------------------ runtime events

SessionStates == {"IDLE", "READY", "SYNCHRONIZED", "VISIBLE", "FOCUSED", "STOPPING", "LOSS_PENDING", "EXITING"}

StateChanged(s) == [type |-> "SESSION_STATE_CHANGED", state |-> s]

InstanceLossPending == [type |-> "INSTANCE_LOSS_PENDING", state |-> "NONE"]

InteractionProfileChanged == [type |-> "INTERACTION_PROFILE_CHANGED", state |-> "NONE"]

\* A runtime call in the history: who is the eye or hand it is about (2: the
\* head, -1: none), time the display time passed to it or, for xrWaitFrame,
\* reported by it (-1: none), flags the location flags xrLocateSpace reports.
CallF(name, who, time, flags) == [call |-> name, who |-> who, time |-> time, flags |-> flags]

Call(name, who, time) == CallF(name, who, time, {})

\* HandleEvent leaving the focus flag set on XR_SESSION_STATE_VISIBLE.
HandleEvent_VisibleKeepsFocus(vs, ev) ==
    IF ev.type = "SESSION_STATE_CHANGED"
    THEN LET s1 == [vs EXCEPT !.sessionState = ev.state]
         IN CASE ev.state = "READY" -> [s1 EXCEPT !.sessionRunning = TRUE]
              [] ev.state = "STOPPING" -> [s1 EXCEPT !.sessionRunning = FALSE]
              [] ev.state \in {"EXITING", "LOSS_PENDING"} -> [s1 EXCEPT !.shouldExit = TRUE]
              [] ev.state = "FOCUSED" -> [s1 EXCEPT !.sessionFocused = TRUE]
              [] OTHER -> s1
    ELSE IF ev.type = "INSTANCE_LOSS_PENDING" THEN [vs EXCEPT !.shouldExit = TRUE]
    ELSE vs

\* HandleEvent taking XR_SESSION_STATE_IDLE for the end of the session.
HandleEvent_IdleStops(vs, ev) ==
    IF ev.type = "SESSION_STATE_CHANGED"
    THEN LET s1 == [vs EXCEPT !.sessionState = ev.state]
         IN CASE ev.state = "READY" -> [s1 EXCEPT !.sessionRunning = TRUE]
              [] ev.state \in {"STOPPING", "IDLE"} -> [s1 EXCEPT !.sessionRunning = FALSE]
              [] ev.state \in {"EXITING", "LOSS_PENDING"} -> [s1 EXCEPT !.shouldExit = TRUE]
              [] ev.state = "FOCUSED" -> [s1 EXCEPT !.sessionFocused = TRUE]
              [] ev.state = "VISIBLE" -> [s1 EXCEPT !.sessionFocused = FALSE]
              [] OTHER -> s1
    ELSE IF ev.type = "INSTANCE_LOSS_PENDING" THEN [vs EXCEPT !.shouldExit = TRUE]
    ELSE vs

\* HandleEvent taking XR_SESSION_STATE_EXITING for a state without effect.
HandleEvent_ExitingIgnored(vs, ev) ==
    IF ev.type = "SESSION_STATE_CHANGED"
    THEN LET s1 == [vs EXCEPT !.sessionState = ev.state]
         IN CASE ev.state = "READY" -> [s1 EXCEPT !.sessionRunning = TRUE]
              [] ev.state = "STOPPING" -> [s1 EXCEPT !.sessionRunning = FALSE]
              [] ev.state = "LOSS_PENDING" -> [s1 EXCEPT !.shouldExit = TRUE]
              [] ev.state = "FOCUSED" -> [s1 EXCEPT !.sessionFocused = TRUE]
              [] ev.state = "VISIBLE" -> [s1 EXCEPT !.sessionFocused = FALSE]
              [] OTHER -> s1
    ELSE IF ev.type = "INSTANCE_LOSS_PENDING" THEN [vs EXCEPT !.shouldExit = TRUE]
    ELSE vs

\* One pass of the switch in PollXREvents on the event ev.
HandleEvent(vs, ev) ==
    IF ev.type = "SESSION_STATE_CHANGED"
    THEN LET s1 == [vs EXCEPT !.sessionState = ev.state]
         IN CASE ev.state = "READY" -> [s1 EXCEPT !.sessionRunning = TRUE]
              [] ev.state = "STOPPING" -> [s1 EXCEPT !.sessionRunning = FALSE]
              [] ev.state \in {"EXITING", "LOSS_PENDING"} -> [s1 EXCEPT !.shouldExit = TRUE]
              [] ev.state = "FOCUSED" -> [s1 EXCEPT !.sessionFocused = TRUE]
              [] ev.state = "VISIBLE" -> [s1 EXCEPT !.sessionFocused = FALSE]
              [] OTHER -> s1
    ELSE IF ev.type = "INSTANCE_LOSS_PENDING" THEN [vs EXCEPT !.shouldExit = TRUE]
    ELSE vs

\* The runtime calls HandleEvent makes on ev.
HandleEventCalls(ev) ==
    IF ev.type = "SESSION_STATE_CHANGED" /\ ev.state = "READY" THEN <<Call("xrBeginSession", -1, -1)>>
    ELSE IF ev.type = "SESSION_STATE_CHANGED" /\ ev.state = "STOPPING" THEN <<Call("xrEndSession", -1, -1)>>
    ELSE <<>>

\* PollXREvents on the events xrPollEvent delivers before it reports
\* XR_EVENT_UNAVAILABLE or fails: the state and the runtime calls made.
RECURSIVE PollXREvents(_, _, _)
PollXREvents(vs, evs, calls) ==
    IF evs = <<>> THEN [vs |-> vs, calls |-> calls]
    ELSE PollXREvents(HandleEvent(vs, Head(evs)), Tail(evs), calls \o HandleEventCalls(Head(evs)))

\* AppShouldClose polling once: it processes the first event delivered and
\* returns.
AppShouldClose_PollsOnce(n) ==
    LET looped == IF destroyRequested THEN [vrState EXCEPT !.shouldExit = TRUE] ELSE vrState
        r == PollXREvents(looped, SubSeq(eventQueue, 1, Min(n, 1)), <<>>)
    IN /\ n \in 0..Len(eventQueue)
       /\ vrState' = r.vs
       /\ eventQueue' = SubSeq(eventQueue, Min(n, 1) + 1, Len(eventQueue))
       /\ xrCalls' = r.calls
       /\ UNCHANGED <<drawCommands, htState, live, faults, rtLog, destroyRequested, rtClock, replayed, drawEpochs, apiCalls>>

\* AppShouldClose taking a failed xrPollEvent for a reason to exit.
AppShouldClose_FailedPollExits(n) ==
    LET looped == IF destroyRequested THEN [vrState EXCEPT !.shouldExit = TRUE] ELSE vrState
        r == PollXREvents(looped, SubSeq(eventQueue, 1, n), <<>>)
    IN /\ n \in 0..Len(eventQueue)
       /\ vrState' = IF n < Len(eventQueue) THEN [r.vs EXCEPT !.shouldExit = TRUE] ELSE r.vs
       /\ eventQueue' = SubSeq(eventQueue, n + 1, Len(eventQueue))
       /\ xrCalls' = r.calls
       /\ UNCHANGED <<drawCommands, htState, live, faults, rtLog, destroyRequested, rtClock, replayed, drawEpochs, apiCalls>>

\* AppShouldClose recomputing the exit flag from the destroy request alone.
AppShouldClose_ForgetsExit(n) ==
    LET looped == [vrState EXCEPT !.shouldExit = destroyRequested]
        r == PollXREvents(looped, SubSeq(eventQueue, 1, n), <<>>)
    IN /\ n \in 0..Len(eventQueue)
       /\ vrState' = r.vs
       /\ eventQueue' = SubSeq(eventQueue, n + 1, Len(eventQueue))
       /\ xrCalls' = r.calls
       /\ UNCHANGED <<drawCommands, htState, live, faults, rtLog, destroyRequested, rtClock, replayed, drawEpochs, apiCalls>>

\* AppShouldClose; n is the number of pending events xrPollEvent delivers
\* (n < Len(eventQueue): the next xrPollEvent fails).  The value returned is
\* vrState'.shouldExit.
AppShouldClose(n) ==
    LET looped == IF destroyRequested THEN [vrState EXCEPT !.shouldExit = TRUE] ELSE vrState
        r == PollXREvents(looped, SubSeq(eventQueue, 1, n), <<>>)
    IN /\ n \in 0..Len(eventQueue)
       /\ vrState' = r.vs
       /\ eventQueue' = SubSeq(eventQueue, n + 1, Len(eventQueue))
       /\ xrCalls' = r.calls
       /\ UNCHANGED <<drawCommands, htState, live, faults, rtLog, destroyRequested, rtClock, replayed, drawEpochs, apiCalls>>

\* The runtime queues the event ev, the n-th pending one at most.
RuntimeEventWithin(ev, n) ==
    /\ Len(eventQueue) < n
    /\ eventQueue' = Append(eventQueue, ev)
    /\ UNCHANGED <<pc, vrState, drawCommands, htState, live, faults, rtLog, destroyRequested, rtClock, xrCalls, replayed, drawEpochs, apiCalls>>

RuntimeEvent(ev) == RuntimeEventWithin(ev, MaxQueue)

\* ------------------------------------------------------------ frame bracket

ClearDrawCommands(cmds) == <<>>

\* What xrLocateViews can report for the two eyes.
ViewOf(p, tl, tr) ==
    [pose |-> [position |-> p, orientation |-> QuatIdentity],
     fov |-> [tanLeft |-> tl, tanRight |-> tr, tanUp |-> 1, tanDown |-> -1]]

StereoViews == [i \in 0..1 |-> IF i = 0 THEN ViewOf(<<-1, 2, 0>>, -2, 1) ELSE ViewOf(<<1, 2, 0>>, -1, 2)]

ViewSets ==
    { StereoViews,
      [i \in 0..1 |-> IF i = 0 THEN ViewOf(<<2, 2, 3>>, -2, 1) ELSE ViewOf(<<4, 2, 3>>, -1, 2)] }

\* The headset eye data BeginVRMode derives from view i.
UpdateEye(vs, i) ==
    LET proj == CreateProjectionMatrix(vs.views[i].fov, NearZ, FarZ)
        view == CreateViewMatrix(vs.views[i].pose, vs.playerPosition, vs.playerYaw)
    IN IF i = 0
       THEN [vs EXCEPT !.headset.leftEyeProjection = proj, !.headset.leftEyeView = view,
                       !.headset.leftEyePosition = vs.views[i].pose.position]
       ELSE [vs EXCEPT !.headset.rightEyeProjection = proj, !.headset.rightEyeView = view,
                       !.headset.rightEyePosition = vs.views[i].pose.position]

RECURSIVE UpdateEyes(_, _, _)
UpdateEyes(vs, i, viewCount) ==
    IF i < viewCount /\ i < 2 THEN UpdateEyes(UpdateEye(vs, i), i + 1, viewCount) ELSE vs

\* The history of which BeginVRMode call each recorded command follows, kept
\* in step with the buffer: cut where the buffer is cut, extended where the
\* buffer is extended.
EpochsAfter(cmds, n) ==
    IF Len(cmds) <= Len(drawEpochs)
    THEN SubSeq(drawEpochs, 1, Len(cmds))
    ELSE drawEpochs \o [i \in 1..(Len(cmds) - Len(drawEpochs)) |-> n]

\* BeginVRMode; vws is what xrLocateViews reports.  The predicted display
\* time xrWaitFrame yields is the runtime's next one.
\* BeginVRMode without its test of sessionRunning.
BeginVRMode_NoRunningCheck(vws) ==
    /\ apiCalls["BeginVRMode"] < MaxFrames
    /\ apiCalls' = [apiCalls EXCEPT !["BeginVRMode"] = @ + 1]
    /\ LET t == rtClock + 1
           s1 == [vrState EXCEPT !.predictedDisplayTime = t]
           s2 == [s1 EXCEPT !.views = vws]
       IN /\ drawCommands' = ClearDrawCommands(drawCommands)
          /\ drawEpochs' = EpochsAfter(drawCommands', apiCalls'["BeginVRMode"])
          /\ rtClock' = t
          /\ vrState' = UpdateEyes(s2, 0, s2.viewCount)
          /\ xrCalls' = xrCalls \o <<Call("xrWaitFrame", -1, t), Call("xrBeginFrame", -1, -1),
                                     Call("xrLocateViews", -1, s1.predictedDisplayTime)>>
    /\ UNCHANGED <<htState, live, faults, rtLog, eventQueue, destroyRequested, replayed>>

\* BeginVRMode leaving vrState.predictedDisplayTime as it was.
BeginVRMode_KeepsOldTime(vws) ==
    /\ apiCalls["BeginVRMode"] < MaxFrames
    /\ apiCalls' = [apiCalls EXCEPT !["BeginVRMode"] = @ + 1]
    /\ IF ~vrState.sessionRunning
       THEN UNCHANGED <<vrState, drawCommands, drawEpochs, rtClock, xrCalls>>
       ELSE LET t == rtClock + 1
                s1 == vrState
                s2 == [s1 EXCEPT !.views = vws]
            IN /\ drawCommands' = ClearDrawCommands(drawCommands)
               /\ drawEpochs' = EpochsAfter(drawCommands', apiCalls'["BeginVRMode"])
               /\ rtClock' = t
               /\ vrState' = UpdateEyes(s2, 0, s2.viewCount)
               /\ xrCalls' = xrCalls \o <<Call("xrWaitFrame", -1, t), Call("xrBeginFrame", -1, -1),
                                          Call("xrLocateViews", -1, s1.predictedDisplayTime)>>
    /\ UNCHANGED <<htState, live, faults, rtLog, eventQueue, destroyRequested, replayed>>

BeginVRMode(vws) ==
    /\ apiCalls["BeginVRMode"] < MaxFrames
    /\ apiCalls' = [apiCalls EXCEPT !["BeginVRMode"] = @ + 1]
    /\ IF ~vrState.sessionRunning
       THEN UNCHANGED <<vrState, drawCommands, drawEpochs, rtClock, xrCalls>>
       ELSE LET t == rtClock + 1
                s1 == [vrState EXCEPT !.predictedDisplayTime = t]
                s2 == [s1 EXCEPT !.views = vws]
            IN /\ drawCommands' = ClearDrawCommands(drawCommands)
               /\ drawEpochs' = EpochsAfter(drawCommands', apiCalls'["BeginVRMode"])
               /\ rtClock' = t
               /\ vrState' = UpdateEyes(s2, 0, s2.viewCount)
               /\ xrCalls' = xrCalls \o <<Call("xrWaitFrame", -1, t), Call("xrBeginFrame", -1, -1),
                                          Call("xrLocateViews", -1, s1.predictedDisplayTime)>>
    /\ UNCHANGED <<htState, live, faults, rtLog, eventQueue, destroyRequested, replayed>>

\* glClearColor(0.1f, 0.1f, 0.2f, 1.0f) in RenderEye: the components as
\* fractions.
GlClearColor == <<<<1, 10>>, <<1, 10>>, <<2, 10>>, <<1, 1>>>>

\* RenderEye losing the first command of the buffer for the right eye.
RenderEye_RightEyeSkipsFirst(vs, cmds, eye, imageIndex) ==
    [ran |-> TRUE, image |-> imageIndex, clear |-> GlClearColor, view |-> vs.currentViewMatrix, proj |-> vs.currentProjectionMatrix,
     draws |-> [i \in 1..(IF eye = 1 /\ Len(cmds) > 0 THEN Len(cmds) - 1 ELSE Len(cmds)) |->
                  LET k == IF eye = 1 THEN i + 1 ELSE i
                  IN [index |-> k - 1, type |-> cmds[k].type, position |-> cmds[k].position,
                      size |-> cmds[k].size, color |-> cmds[k].color]]]

\* RenderEye: the clear of the eye's render target, then the replay of the
\* buffer for the eye, each draw with the current view and projection matrix.
RenderEye(vs, cmds, eye, imageIndex) ==
    [ran |-> TRUE, image |-> imageIndex, clear |-> GlClearColor, view |-> vs.currentViewMatrix, proj |-> vs.currentProjectionMatrix,
     draws |-> [i \in 1..Len(cmds) |->
                  [index |-> i - 1, type |-> cmds[i].type, position |-> cmds[i].position,
                   size |-> cmds[i].size, color |-> cmds[i].color]]]

\* What the runtime answers to the two calls that obtain the image of an
\* eye: whether xrAcquireSwapchainImage and xrWaitSwapchainImage succeed, and
\* the value the local imageIndex holds after the acquire call (the index
\* the runtime wrote, or what the uninitialized local held when the call
\* failed and wrote nothing).
Answer(acquired, waited, imageIndex) == [acquired |-> acquired, waited |-> waited, image |-> imageIndex]

Flags(succeeded) == IF succeeded THEN {} ELSE {"failed"}

\* The per-eye loop of EndVRMode from eye i on, ans[i] being the runtime's
\* answers for eye i.  No result is looked at: RenderEye and
\* xrReleaseSwapchainImage follow whatever the answers.  The runtime refuses
\* the release of an image that was not acquired and waited for.
RECURSIVE EndVRModeEyesAnswered(_, _, _, _)
EndVRModeEyesAnswered(acc, cmds, ans, i) ==
    IF i >= acc.vs.viewCount THEN acc
    ELSE LET s1 == [acc.vs EXCEPT
                        !.currentEye = i,
                        !.currentViewMatrix = IF i = 0 THEN acc.vs.headset.leftEyeView ELSE acc.vs.headset.rightEyeView,
                        !.currentProjectionMatrix = IF i = 0 THEN acc.vs.headset.leftEyeProjection ELSE acc.vs.headset.rightEyeProjection]
         IN EndVRModeEyesAnswered(
               [vs |-> s1,
                calls |-> acc.calls \o <<CallF("xrAcquireSwapchainImage", i, -1, Flags(ans[i].acquired)),
                                         CallF("xrWaitSwapchainImage", i, -1, Flags(ans[i].acquired /\ ans[i].waited)),
                                         Call("RenderEye", i, -1),
                                         CallF("xrReleaseSwapchainImage", i, -1, Flags(ans[i].acquired /\ ans[i].waited))>>,
                rep |-> [acc.rep EXCEPT ![i] = RenderEye(s1, cmds, i, ans[i].image)]],
               cmds, ans, i + 1)

\* The per-eye loop of EndVRMode from eye i on when every acquire and wait
\* succeeds; idx[i] is the image index xrAcquireSwapchainImage reports for
\* eye i.
EndVRModeEyes(acc, cmds, idx, i) ==
    EndVRModeEyesAnswered(acc, cmds, [e \in DOMAIN idx |-> Answer(TRUE, TRUE, idx[e])], i)

ImageIndices == {0}

\* EndVRMode returning before it submits the frame.
EndVRMode_NoEndFrame(idx) ==
    /\ apiCalls["EndVRMode"] < MaxFrames
    /\ apiCalls' = [apiCalls EXCEPT !["EndVRMode"] = @ + 1]
    /\ IF ~vrState.sessionRunning
       THEN UNCHANGED <<vrState, xrCalls, replayed>>
       ELSE LET r == EndVRModeEyes([vs |-> vrState, calls |-> <<>>, rep |-> NoReplay], drawCommands, idx, 0)
            IN /\ vrState' = r.vs
               /\ replayed' = r.rep
               /\ xrCalls' = xrCalls \o r.calls
    /\ UNCHANGED <<drawCommands, drawEpochs, htState, live, faults, rtLog, eventQueue, destroyRequested, rtClock>>

EndVRMode(idx) ==
    /\ apiCalls["EndVRMode"] < MaxFrames
    /\ apiCalls' = [apiCalls EXCEPT !["EndVRMode"] = @ + 1]
    /\ IF ~vrState.sessionRunning
       THEN UNCHANGED <<vrState, xrCalls, replayed>>
       ELSE LET r == EndVRModeEyes([vs |-> vrState, calls |-> <<>>, rep |-> NoReplay], drawCommands, idx, 0)
            IN /\ vrState' = r.vs
               /\ replayed' = r.rep
               /\ xrCalls' = xrCalls \o r.calls \o <<Call("xrEndFrame", -1, r.vs.predictedDisplayTime)>>
    /\ UNCHANGED <<drawCommands, drawEpochs, htState, live, faults, rtLog, eventQueue, destroyRequested, rtClock>>

\* EndVRMode for any answers of the runtime to the acquire and wait calls.
EndVRModeAnswered(ans) ==
    /\ apiCalls["EndVRMode"] < MaxFrames
    /\ apiCalls' = [apiCalls EXCEPT !["EndVRMode"] = @ + 1]
    /\ IF ~vrState.sessionRunning
       THEN UNCHANGED <<vrState, xrCalls, replayed>>
       ELSE LET r == EndVRModeEyesAnswered([vs |-> vrState, calls |-> <<>>, rep |-> NoReplay], drawCommands, ans, 0)
            IN /\ vrState' = r.vs
               /\ replayed' = r.rep
               /\ xrCalls' = xrCalls \o r.calls \o <<Call("xrEndFrame", -1, r.vs.predictedDisplayTime)>>
    /\ UNCHANGED <<drawCommands, drawEpochs, htState, live, faults, rtLog, eventQueue, destroyRequested, rtClock>>

\* .timeout of the XrSwapchainImageWaitInfo EndVRMode passes to
\* xrWaitSwapchainImage.
XR_INFINITE_DURATION == "XR_INFINITE_DURATION"

SwapchainImageWaitTimeout == XR_INFINITE_DURATION

\* EndVRMode when the runtime never makes the image of eye k available: the
\* eyes before k are rendered and released, the image of eye k is acquired,
\* and xrWaitSwapchainImage, told to wait without limit, does not return.
\* The call is left where it waits.
EndVRModeWaitsForever(idx, k) ==
    /\ SwapchainImageWaitTimeout = XR_INFINITE_DURATION
    /\ apiCalls["EndVRMode"] < MaxFrames
    /\ apiCalls' = [apiCalls EXCEPT !["EndVRMode"] = @ + 1]
    /\ vrState.sessionRunning
    /\ k < vrState.viewCount
    /\ LET r == EndVRModeEyes([vs |-> [vrState EXCEPT !.viewCount = k], calls |-> <<>>, rep |-> NoReplay], drawCommands, idx, 0)
       IN /\ vrState' = [r.vs EXCEPT !.viewCount = vrState.viewCount]
          /\ replayed' = r.rep
          /\ xrCalls' = xrCalls \o r.calls \o <<Call("xrAcquireSwapchainImage", k, -1), Call("xrWaitSwapchainImage", k, -1)>>
    /\ UNCHANGED <<drawCommands, drawEpochs, htState, live, faults, rtLog, eventQueue, destroyRequested, rtClock>>

\* ------------------------------------------------------------ draw commands

CMD_DRAW_CUBE == "CMD_DRAW_CUBE"

CMD_DRAW_LINE == "CMD_DRAW_LINE"

\* AddDrawCommand without its capacity test.
AddDrawCommand_Unbounded(cmds, cmd) == Append(cmds, cmd)

AddDrawCommand(cmds, cmd) ==
    IF Len(cmds) < MAX_DRAW_COMMANDS THEN Append(cmds, cmd) ELSE cmds

\* A Color (r, g, b, a in 0..255) as the normalized Vector3 the buffer keeps:
\* each component the fraction <<c, 255>>.
NormalizeColor(color) == <<<<color[1], 255>>, <<color[2], 255>>, <<color[3], 255>>>>

GRAY == <<130, 130, 130, 255>>

RED == <<230, 41, 55, 255>>

\* DrawVRCuboid without its test of sessionRunning.
DrawVRCuboid_NoRunningCheck(vs, cmds, position, size, color) ==
    AddDrawCommand(cmds, [type |-> CMD_DRAW_CUBE, position |-> position, size |-> size, color |-> color])

\* The buffer after DrawVRCuboid(position, size, color).
DrawVRCuboid(vs, cmds, position, size, color) ==
    IF ~vs.sessionRunning THEN cmds
    ELSE AddDrawCommand(cmds, [type |-> CMD_DRAW_CUBE, position |-> position, size |-> size, color |-> color])

\* The buffer after DrawVRLine3D(startPos, endPos, color).
DrawVRLine3D(vs, cmds, startPos, endPos, color) ==
    IF ~vs.sessionRunning THEN cmds
    ELSE AddDrawCommand(cmds, [type |-> CMD_DRAW_LINE, position |-> startPos, size |-> endPos, color |-> NormalizeColor(color)])

\* C's integer division (it truncates toward zero).
CDiv(a, b) == IF a >= 0 THEN a \div b ELSE -((-a) \div b)

\* The iterations lo..hi of DrawVRGrid's loop over i, in the loop's order
\* (the range is run as its lower half followed by its upper half).
RECURSIVE DrawVRGridLoop(_, _, _, _, _, _)
DrawVRGridLoop(vs, cmds, slices, spacing, lo, hi) ==
    IF lo > hi THEN cmds
    ELSE IF lo = hi
    THEN LET half == (slices * spacing) \div 2
             pos == lo * spacing
             alongX == DrawVRLine3D(vs, cmds, <<-half, 0, pos>>, <<half, 0, pos>>, GRAY)
         IN DrawVRLine3D(vs, alongX, <<pos, 0, -half>>, <<pos, 0, half>>, GRAY)
    ELSE LET mid == (lo + hi) \div 2
             lower == DrawVRGridLoop(vs, cmds, slices, spacing, lo, mid)
         IN IF Len(lower) >= 0   \* the lower half has run before the upper half starts
            THEN DrawVRGridLoop(vs, lower, slices, spacing, mid + 1, hi)
            ELSE lower

\* The buffer after DrawVRGrid(slices, spacing); spacing is even, so that
\* (slices * spacing) / 2.0f is a whole number.
DrawVRGrid(vs, cmds, slices, spacing) ==
    IF ~vs.sessionRunning THEN cmds
    ELSE DrawVRGridLoop(vs, cmds, slices, spacing, CDiv(-slices, 2), CDiv(slices, 2))

GREEN == <<0, 228, 48, 255>>

BLUE == <<0, 121, 241, 255>>

Vector3Add(v1, v2) == <<v1[1] + v2[1], v1[2] + v2[2], v1[3] + v2[3]>>

\* The buffer after DrawVRCube(position, size, color).
DrawVRCube(vs, cmds, position, size, color) ==
    DrawVRCuboid(vs, cmds, position, <<size, size, size>>, NormalizeColor(color))

\* The buffer after DrawVRSphere(position, radius, color).
DrawVRSphere(vs, cmds, position, radius, color) ==
    DrawVRCube(vs, cmds, position, radius * 2, color)

\* The buffer after DrawVRPlane(centerPos, size, color); the thickness 0.01f
\* is the fraction <<1, 100>>.
DrawVRPlane(vs, cmds, centerPos, size, color) ==
    DrawVRCuboid(vs, cmds, centerPos, <<size[1], <<1, 100>>, size[3]>>, NormalizeColor(color))

\* The buffer after DrawVRAxes(position, scale).
DrawVRAxes(vs, cmds, position, scale) ==
    LET x == DrawVRLine3D(vs, cmds, position, Vector3Add(position, <<scale, 0, 0>>), RED)
        y == DrawVRLine3D(vs, x, position, Vector3Add(position, <<0, scale, 0>>), GREEN)
    IN DrawVRLine3D(vs, y, position, Vector3Add(position, <<0, 0, scale>>), BLUE)

\* A drawing call that leaves the buffer as cmds, the n-th of the run at most.
DrawWithin(cmds, n) ==
    /\ apiCalls["Draw"] < n
    /\ apiCalls' = [apiCalls EXCEPT !["Draw"] = @ + 1]
    /\ drawCommands' = cmds
    /\ drawEpochs' = EpochsAfter(cmds, apiCalls["BeginVRMode"])
    /\ UNCHANGED <<vrState, htState, live, faults, rtLog, eventQueue, destroyRequested, rtClock, xrCalls, replayed>>

Draw(cmds) == DrawWithin(cmds, MaxDraws)

\* ------------------------------------------------------------------ input

\* What the runtime reports for one hand in one sync: the pose location and
\* its flags, the velocity and its flags, and the action states.
HandSample(pv, ov, p, q, lv, v, b) ==
    [posValid |-> pv, oriValid |-> ov, position |-> p, orientation |-> q,
     linearValid |-> lv, angularValid |-> lv, linearVelocity |-> v, angularVelocity |-> v,
     trigger |-> IF b THEN 1 ELSE 0, grip |-> IF b THEN 1 ELSE 0,
     thumbstickX |-> IF b THEN -1 ELSE 0, thumbstickY |-> IF b THEN 1 ELSE 0,
     thumbstickClick |-> b, buttonA |-> b, buttonB |-> ~b]

HandSamples ==
    { HandSample(TRUE, TRUE, <<1, 1, -1>>, <<0, 1, 0, 0>>, TRUE, <<0, 0, 1>>, TRUE),
      HandSample(TRUE, TRUE, <<2, 1, 0>>, QuatIdentity, FALSE, <<5, 5, 5>>, FALSE),
      HandSample(FALSE, FALSE, <<7, 7, 7>>, <<1, 0, 0, 0>>, FALSE, <<5, 5, 5>>, FALSE),
      HandSample(TRUE, FALSE, <<3, 1, 1>>, <<9, 9, 9, 9>>, FALSE, <<5, 5, 5>>, FALSE) }

\* The body of the per-hand loop of UpdateInput for hand i.
UpdateController(c, s) ==
    LET c1 == IF s.posValid
              THEN [c EXCEPT !.position = s.position, !.orientation = s.orientation, !.isTracking = TRUE]
              ELSE [c EXCEPT !.isTracking = FALSE]
        c2 == IF s.linearValid THEN [c1 EXCEPT !.velocity = s.linearVelocity] ELSE c1
        c3 == IF s.angularValid THEN [c2 EXCEPT !.angularVelocity = s.angularVelocity] ELSE c2
    IN [c3 EXCEPT !.trigger = s.trigger, !.grip = s.grip,
                  !.thumbstickX = s.thumbstickX, !.thumbstickY = s.thumbstickY,
                  !.thumbstickClick = s.thumbstickClick, !.buttonA = s.buttonA, !.buttonB = s.buttonB]

\* UpdateInput without its test of sessionRunning.
UpdateInput_NoRunningCheck(vs, hands, menu, head) ==
    LET s1 == [vs EXCEPT !.controllers = [i \in 0..1 |-> UpdateController(vs.controllers[i], hands[i])]]
        s2 == [s1 EXCEPT !.controllers[0].menuButton = menu]
    IN [s2 EXCEPT !.headset.position = head.position, !.headset.orientation = head.orientation]

\* UpdateInput; hands[i] is what the runtime reports for hand i, menu the
\* state of the menu button, head the head pose it locates.
UpdateInput(vs, hands, menu, head) ==
    IF ~vs.sessionRunning THEN vs
    ELSE LET s1 == [vs EXCEPT !.controllers = [i \in 0..1 |-> UpdateController(vs.controllers[i], hands[i])]]
             s2 == [s1 EXCEPT !.controllers[0].menuButton = menu]
         IN [s2 EXCEPT !.headset.position = head.position, !.headset.orientation = head.orientation]

\* The location flags of a sample.
LocationFlags(s) ==
    (IF s.posValid THEN {"POSITION_VALID"} ELSE {}) \cup (IF s.oriValid THEN {"ORIENTATION_VALID"} ELSE {})

\* The runtime calls of UpdateInput that take a display time, with the flags
\* the runtime reports for the two hands.
UpdateInputCalls(vs, hands) ==
    IF ~vs.sessionRunning THEN <<>>
    ELSE <<Call("xrSyncActions", -1, -1),
           CallF("xrLocateSpace", 0, vs.predictedDisplayTime, LocationFlags(hands[0])),
           CallF("xrLocateSpace", 1, vs.predictedDisplayTime, LocationFlags(hands[1])),
           Call("xrLocateSpace", 2, vs.predictedDisplayTime)>>

SyncControllers(hands, menu, head) ==
    /\ apiCalls["SyncControllers"] < MaxFrames
    /\ apiCalls' = [apiCalls EXCEPT !["SyncControllers"] = @ + 1]
    /\ vrState' = UpdateInput(vrState, hands, menu, head)
    /\ xrCalls' = xrCalls \o UpdateInputCalls(vrState, hands)
    /\ UNCHANGED <<drawCommands, htState, live, faults, rtLog, eventQueue, destroyRequested, rtClock, replayed, drawEpochs>>

GetController(vs, hand) == vs.controllers[hand]

GetHeadset(vs) == vs.headset

SetVRClearColor(color) ==
    /\ vrState' = [vrState EXCEPT !.clearColor = color]
    /\ UNCHANGED <<drawCommands, htState, live, faults, rtLog, eventQueue, destroyRequested, rtClock, xrCalls, replayed, drawEpochs, apiCalls>>

\* ------------------------------------------------------------ player offset

\* SetPlayerPosition building the view matrices of the eyes anew.
SetPlayerPosition_RebuildsViews(position) ==
    /\ vrState' = UpdateEyes([vrState EXCEPT !.playerPosition = position], 0, vrState.viewCount)
    /\ UNCHANGED <<drawCommands, htState, live, faults, rtLog, eventQueue, destroyRequested, rtClock, xrCalls, replayed, drawEpochs, apiCalls>>

SetPlayerPosition(position) ==
    /\ vrState' = [vrState EXCEPT !.playerPosition = position]
    /\ UNCHANGED <<drawCommands, htState, live, faults, rtLog, eventQueue, destroyRequested, rtClock, xrCalls, replayed, drawEpochs, apiCalls>>

SetPlayerYaw(yaw) ==
    /\ vrState' = [vrState EXCEPT !.playerYaw = yaw]
    /\ UNCHANGED <<drawCommands, htState, live, faults, rtLog, eventQueue, destroyRequested, rtClock, xrCalls, replayed, drawEpochs, apiCalls>>

\* MovePlayer(forward, strafe, up): the step is turned by the player yaw.
MovePlayer(forward, strafe, up) ==
    /\ LET sinYaw == SinDeg(vrState.playerYaw)
           cosYaw == CosDeg(vrState.playerYaw)
           p == vrState.playerPosition
       IN vrState' = [vrState EXCEPT !.playerPosition =
                        <<p[1] + (-sinYaw * forward + cosYaw * strafe),
                          p[2] + up,
                          p[3] + (-cosYaw * forward - sinYaw * strafe)>>]
    /\ UNCHANGED <<drawCommands, htState, live, faults, rtLog, eventQueue, destroyRequested, rtClock, xrCalls, replayed, drawEpochs, apiCalls>>

\* ------------------------------------------------------------ hand tracking

\* The core's state as the hand-tracking module reads it.
GetXrInstance(vs) == vs.h["instance"]

GetXrSession(vs) == vs.h["session"]

GetXrStageSpace(vs) == vs.h["stageSpace"]

GetPredictedDisplayTime(vs) == vs.predictedDisplayTime

IsVRSessionRunning(vs) == vs.sessionRunning

\* What the runtime can answer InitHandTracking: everything succeeds, the
\* extension is not listed, a function pointer is not to be had, or the
\* creation of the left or of the right hand tracker fails.
HandTrackingOutcomes == {"ok", "unsupported", "noProcAddr", "createLeftFails", "createRightFails"}

HandTracker(hand) == IF hand = 0 THEN "handTracker0" ELSE "handTracker1"

\* htState.xrCreateHandTrackerEXT for one hand, on the resource state st.
CreateHandTracker(st, hand) ==
    [st EXCEPT !.live = @ \cup {HandTracker(hand)}, !.log = Append(@, <<"create", HandTracker(hand)>>)]

\* InitHandTracking leaving the left tracker alive when the creation of the
\* right one fails.
InitHandTrackingResult_KeepsLeft(ht, vs, st, o) ==
    IF ht.initialized THEN [ok |-> TRUE, ht |-> ht, st |-> st]
    ELSE IF ~GetXrInstance(vs) \/ ~GetXrSession(vs) THEN [ok |-> FALSE, ht |-> ht, st |-> st]
    ELSE IF o = "unsupported" THEN [ok |-> FALSE, ht |-> [ht EXCEPT !.extensionSupported = FALSE], st |-> st]
    ELSE LET h1 == [ht EXCEPT !.extensionSupported = TRUE] IN
      IF o \in {"noProcAddr", "createLeftFails"} THEN [ok |-> FALSE, ht |-> h1, st |-> st]
      ELSE LET h2 == [h1 EXCEPT !.handTracker[0] = TRUE]
               s2 == CreateHandTracker(st, 0)
           IN IF o = "createRightFails"
              THEN [ok |-> FALSE, ht |-> h2, st |-> s2]
              ELSE [ok |-> TRUE,
                    ht |-> [h2 EXCEPT !.handTracker[1] = TRUE, !.initialized = TRUE],
                    st |-> CreateHandTracker(s2, 1)]

\* InitHandTracking without its test of htState.initialized.
InitHandTrackingResult_InitializesAgain(ht, vs, st, o) ==
    IF ~GetXrInstance(vs) \/ ~GetXrSession(vs) THEN [ok |-> FALSE, ht |-> ht, st |-> st]
    ELSE IF o = "unsupported" THEN [ok |-> FALSE, ht |-> [ht EXCEPT !.extensionSupported = FALSE], st |-> st]
    ELSE LET h1 == [ht EXCEPT !.extensionSupported = TRUE] IN
      IF o \in {"noProcAddr", "createLeftFails"} THEN [ok |-> FALSE, ht |-> h1, st |-> st]
      ELSE LET h2 == [h1 EXCEPT !.handTracker[0] = TRUE]
               s2 == CreateHandTracker(st, 0)
           IN IF o = "createRightFails"
              THEN [ok |-> FALSE, ht |-> [h2 EXCEPT !.handTracker[0] = FALSE], st |-> Destroy(s2, HandTracker(0))]
              ELSE [ok |-> TRUE,
                    ht |-> [h2 EXCEPT !.handTracker[1] = TRUE, !.initialized = TRUE],
                    st |-> CreateHandTracker(s2, 1)]

\* InitHandTracking under the outcome o: the value returned, htState and the
\* resource state on return.
InitHandTrackingResult(ht, vs, st, o) ==
    IF ht.initialized THEN [ok |-> TRUE, ht |-> ht, st |-> st]
    ELSE IF ~GetXrInstance(vs) \/ ~GetXrSession(vs) THEN [ok |-> FALSE, ht |-> ht, st |-> st]
    ELSE IF o = "unsupported" THEN [ok |-> FALSE, ht |-> [ht EXCEPT !.extensionSupported = FALSE], st |-> st]
    ELSE LET h1 == [ht EXCEPT !.extensionSupported = TRUE] IN
      IF o \in {"noProcAddr", "createLeftFails"} THEN [ok |-> FALSE, ht |-> h1, st |-> st]
      ELSE LET h2 == [h1 EXCEPT !.handTracker[0] = TRUE]
               s2 == CreateHandTracker(st, 0)
           IN IF o = "createRightFails"
              THEN [ok |-> FALSE, ht |-> [h2 EXCEPT !.handTracker[0] = FALSE], st |-> Destroy(s2, HandTracker(0))]
              ELSE [ok |-> TRUE,
                    ht |-> [h2 EXCEPT !.handTracker[1] = TRUE, !.initialized = TRUE],
                    st |-> CreateHandTracker(s2, 1)]

InitHandTracking(o) ==
    LET r == InitHandTrackingResult(htState, vrState, ResState(vrState), o)
    IN /\ htState' = r.ht
       /\ live' = r.st.live
       /\ faults' = r.st.faults
       /\ rtLog' = r.st.log
       /\ UNCHANGED <<vrState, drawCommands, eventQueue, destroyRequested, rtClock, xrCalls, replayed, drawEpochs, apiCalls>>

IsHandTrackingActive(ht) == ht.initialized

RECURSIVE DestroyHandTrackersFrom(_, _, _)
DestroyHandTrackersFrom(ht, st, hand) ==
    IF hand >= 2 THEN st
    ELSE DestroyHandTrackersFrom(ht, IF ht.handTracker[hand] THEN Destroy(st, HandTracker(hand)) ELSE st, hand + 1)

ShutdownHandTracking ==
    LET st == DestroyHandTrackersFrom(htState, ResState(vrState), 0)
    IN /\ IF ~htState.initialized
          THEN UNCHANGED <<htState, live, faults, rtLog>>
          ELSE /\ htState' = ZeroHTState
               /\ live' = st.live
               /\ faults' = st.faults
               /\ rtLog' = st.log
       /\ UNCHANGED <<vrState, drawCommands, eventQueue, destroyRequested, rtClock, xrCalls, replayed, drawEpochs, apiCalls>>

\* Fractions <<n, d>> with d > 0: order, fminf and fmaxf.
FracLess(a, b) == a[1] * b[2] < b[1] * a[2]

fminf(a, b) == IF FracLess(b, a) THEN b ELSE a

fmaxf(a, b) == IF FracLess(a, b) THEN b ELSE a

\* sqrtf on the whole numbers whose root is whole (between two of them, the
\* root rounded down).
Sqrt(n) == CHOOSE r \in 0..n : r * r <= n /\ n < (r + 1) * (r + 1)

Vector3Len(v) == Sqrt(v[1] * v[1] + v[2] * v[2] + v[3] * v[3])

Vector3Sub(a, b) == <<a[1] - b[1], a[2] - b[2], a[3] - b[3]>>

\* DetectPinch without the clamp of the strength to 0..1.
DetectPinch_NoClamp(hand) ==
    LET thumbTip == hand.joints[HAND_JOINT_THUMB_TIP]
        indexTip == hand.joints[HAND_JOINT_INDEX_TIP]
    IN IF thumbTip.isValid /\ indexTip.isValid
       THEN LET pinchDist == Vector3Len(Vector3Sub(thumbTip.position, indexTip.position))
                PINCH_CLOSE == 20
                PINCH_OPEN == 80
                raw == <<(PINCH_OPEN - PINCH_CLOSE) - (pinchDist - PINCH_CLOSE), PINCH_OPEN - PINCH_CLOSE>>
            IN [hand EXCEPT !.pinchStrength = raw, !.isPinching = FracLess(<<8, 10>>, raw)]
       ELSE [hand EXCEPT !.isPinching = FALSE, !.pinchStrength = <<0, 1>>]

\* The pinch of DetectGestures: the strength and isPinching.
DetectPinch(hand) ==
    LET thumbTip == hand.joints[HAND_JOINT_THUMB_TIP]
        indexTip == hand.joints[HAND_JOINT_INDEX_TIP]
    IN IF thumbTip.isValid /\ indexTip.isValid
       THEN LET pinchDist == Vector3Len(Vector3Sub(thumbTip.position, indexTip.position))
                PINCH_CLOSE == 20
                PINCH_OPEN == 80
                raw == <<(PINCH_OPEN - PINCH_CLOSE) - (pinchDist - PINCH_CLOSE), PINCH_OPEN - PINCH_CLOSE>>
                strength == fmaxf(<<0, 1>>, fminf(<<1, 1>>, raw))
            IN [hand EXCEPT !.pinchStrength = strength, !.isPinching = FracLess(<<8, 10>>, strength)]
       ELSE [hand EXCEPT !.isPinching = FALSE, !.pinchStrength = <<0, 1>>]

\* DetectFingers taking a fingertip at exactly the fist threshold for curled.
DetectFingers_FistAtThreshold(hand) ==
    LET palm == hand.joints[HAND_JOINT_PALM]
        indexTip == hand.joints[HAND_JOINT_INDEX_TIP]
        middleTip == hand.joints[HAND_JOINT_MIDDLE_TIP]
        ringTip == hand.joints[HAND_JOINT_RING_TIP]
        littleTip == hand.joints[HAND_JOINT_LITTLE_TIP]
        indexDist == Vector3Len(Vector3Sub(indexTip.position, palm.position))
        middleDist == Vector3Len(Vector3Sub(middleTip.position, palm.position))
        ringDist == Vector3Len(Vector3Sub(ringTip.position, palm.position))
        littleDist == Vector3Len(Vector3Sub(littleTip.position, palm.position))
        allValid == palm.isValid /\ indexTip.isValid /\ middleTip.isValid /\ ringTip.isValid /\ littleTip.isValid
    IN [hand EXCEPT
          !.isFist = allValid /\ indexDist <= 50 /\ middleDist <= 50 /\ ringDist <= 50 /\ littleDist <= 50,
          !.isPointing = palm.isValid /\ indexTip.isValid /\ middleTip.isValid
                         /\ indexDist > 100 /\ middleDist < 60 /\ ringDist < 60,
          !.isOpen = allValid /\ indexDist > 80 /\ middleDist > 80 /\ ringDist > 80 /\ littleDist > 80]

\* DetectGestures taking the hand for pointing on the index finger alone.
DetectFingers_PointingByIndexAlone(hand) ==
    LET palm == hand.joints[HAND_JOINT_PALM]
        indexTip == hand.joints[HAND_JOINT_INDEX_TIP]
        middleTip == hand.joints[HAND_JOINT_MIDDLE_TIP]
        ringTip == hand.joints[HAND_JOINT_RING_TIP]
        littleTip == hand.joints[HAND_JOINT_LITTLE_TIP]
        indexDist == Vector3Len(Vector3Sub(indexTip.position, palm.position))
        middleDist == Vector3Len(Vector3Sub(middleTip.position, palm.position))
        ringDist == Vector3Len(Vector3Sub(ringTip.position, palm.position))
        littleDist == Vector3Len(Vector3Sub(littleTip.position, palm.position))
        allValid == palm.isValid /\ indexTip.isValid /\ middleTip.isValid /\ ringTip.isValid /\ littleTip.isValid
    IN [hand EXCEPT
          !.isFist = allValid /\ indexDist < 50 /\ middleDist < 50 /\ ringDist < 50 /\ littleDist < 50,
          !.isPointing = palm.isValid /\ indexTip.isValid /\ middleTip.isValid /\ indexDist > 100,
          !.isOpen = allValid /\ indexDist > 80 /\ middleDist > 80 /\ ringDist > 80 /\ littleDist > 80]

\* The fist, pointing and open-hand tests of DetectGestures.
DetectFingers(hand) ==
    LET palm == hand.joints[HAND_JOINT_PALM]
        indexTip == hand.joints[HAND_JOINT_INDEX_TIP]
        middleTip == hand.joints[HAND_JOINT_MIDDLE_TIP]
        ringTip == hand.joints[HAND_JOINT_RING_TIP]
        littleTip == hand.joints[HAND_JOINT_LITTLE_TIP]
        indexDist == Vector3Len(Vector3Sub(indexTip.position, palm.position))
        middleDist == Vector3Len(Vector3Sub(middleTip.position, palm.position))
        ringDist == Vector3Len(Vector3Sub(ringTip.position, palm.position))
        littleDist == Vector3Len(Vector3Sub(littleTip.position, palm.position))
        isFist ==
            LET FIST_THRESHOLD == 50
            IN IF palm.isValid /\ indexTip.isValid /\ middleTip.isValid /\ ringTip.isValid /\ littleTip.isValid
               THEN indexDist < FIST_THRESHOLD /\ middleDist < FIST_THRESHOLD
                    /\ ringDist < FIST_THRESHOLD /\ littleDist < FIST_THRESHOLD
               ELSE FALSE
        isPointing ==
            LET EXTENDED_THRESHOLD == 100
                CURLED_THRESHOLD == 60
            IN IF palm.isValid /\ indexTip.isValid /\ middleTip.isValid
               THEN indexDist > EXTENDED_THRESHOLD /\ middleDist < CURLED_THRESHOLD /\ ringDist < CURLED_THRESHOLD
               ELSE FALSE
        isOpen ==
            LET EXTENDED_THRESHOLD == 80
            IN IF palm.isValid /\ indexTip.isValid /\ middleTip.isValid /\ ringTip.isValid /\ littleTip.isValid
               THEN indexDist > EXTENDED_THRESHOLD /\ middleDist > EXTENDED_THRESHOLD
                    /\ ringDist > EXTENDED_THRESHOLD /\ littleDist > EXTENDED_THRESHOLD
               ELSE FALSE
    IN [hand EXCEPT !.isFist = isFist, !.isPointing = isPointing, !.isOpen = isOpen]

\* The palm data DetectGestures derives from the palm joint.
DetectPalm(hand) ==
    LET palm == hand.joints[HAND_JOINT_PALM]
        q == palm.orientation
    IN IF palm.isValid
       THEN [hand EXCEPT
                !.palmPosition = palm.position,
                !.palmOrientation = palm.orientation,
                !.palmNormal = <<2 * (q[1] * q[2] - q[4] * q[3]),
                                 1 - 2 * (q[1] * q[1] + q[3] * q[3]),
                                 2 * (q[2] * q[3] + q[4] * q[1])>>,
                !.palmDirection = <<2 * (q[1] * q[3] + q[4] * q[2]),
                                    2 * (q[2] * q[3] - q[4] * q[1]),
                                    1 - 2 * (q[1] * q[1] + q[2] * q[2])>>]
       ELSE hand

DetectGestures(hand) ==
    IF ~hand.isTracking
    THEN [hand EXCEPT !.isPinching = FALSE, !.pinchStrength = <<0, 1>>,
                      !.isFist = FALSE, !.isPointing = FALSE, !.isOpen = FALSE]
    ELSE DetectPalm(DetectFingers(DetectPinch(hand)))

\* What xrLocateHandJointsEXT answers for one hand: whether it succeeds,
\* whether it reports the hand active, and the location of each joint.
JointLocation(pv, ov, p) ==
    [posValid |-> pv, oriValid |-> ov, position |-> p, orientation |-> QuatIdentity, radius |-> 8]

\* The copy of one located joint into the hand's joint.
CopyJoint(dst, src) ==
    [dst EXCEPT !.isValid = src.posValid /\ src.oriValid,
                !.position = IF src.posValid THEN src.position ELSE @,
                !.orientation = IF src.oriValid THEN src.orientation ELSE @,
                !.radius = src.radius]

\* The body of the per-hand loop of UpdateHandTracking on the answer loc.
UpdateHand(hand, loc) ==
    LET active == [hand EXCEPT !.isActive = TRUE]
    IN IF loc.succeeded /\ loc.isActive
       THEN DetectGestures(
               [active EXCEPT !.isTracking = TRUE,
                              !.joints = [j \in 0..(HAND_JOINT_COUNT - 1) |-> CopyJoint(active.joints[j], loc.joints[j])]])
       ELSE [active EXCEPT !.isTracking = FALSE,
                           !.joints = [j \in 0..(HAND_JOINT_COUNT - 1) |-> [active.joints[j] EXCEPT !.isValid = FALSE]],
                           !.isPinching = FALSE, !.pinchStrength = <<0, 1>>,
                           !.isFist = FALSE, !.isPointing = FALSE, !.isOpen = FALSE]

\* UpdateHandTracking returning at once, nothing written, when hand tracking
\* is not initialized or the session is not running.
UpdateHands_InactiveWritesNothing(ht, vs, located) ==
    IF ~ht.initialized \/ ~IsVRSessionRunning(vs) THEN ht
    ELSE IF ~GetXrStageSpace(vs) \/ GetPredictedDisplayTime(vs) = 0 THEN ht
    ELSE [ht EXCEPT !.hands = [i \in 0..1 |->
            IF ~ht.handTracker[i] THEN ht.hands[i] ELSE UpdateHand(ht.hands[i], located[i])]]

\* The hands after UpdateHandTracking; located[hand] is what
\* xrLocateHandJointsEXT answers for the hand.
UpdateHands(ht, vs, located) ==
    IF ~ht.initialized \/ ~IsVRSessionRunning(vs)
    THEN [ht EXCEPT !.hands = [i \in 0..1 |-> [ht.hands[i] EXCEPT !.isTracking = FALSE, !.isActive = FALSE]]]
    ELSE IF ~GetXrStageSpace(vs) \/ GetPredictedDisplayTime(vs) = 0 THEN ht
    ELSE [ht EXCEPT !.hands = [i \in 0..1 |->
            IF ~ht.handTracker[i] THEN ht.hands[i] ELSE UpdateHand(ht.hands[i], located[i])]]

\* A hand as the runtime locates it, every joint valid: the palm at the
\* origin, the index, middle, ring and little tips i, m, r and l millimetres
\* from it, the thumb tip d millimetres from the index tip, the other joints
\* at the wrist.
HandPose(d, i, m, r, l) ==
    [j \in 0..(HAND_JOINT_COUNT - 1) |->
        JointLocation(TRUE, TRUE,
            CASE j = HAND_JOINT_PALM -> <<0, 0, 0>>
              [] j = HAND_JOINT_INDEX_TIP -> <<i, 0, 0>>
              [] j = HAND_JOINT_THUMB_TIP -> <<i, d, 0>>
              [] j = HAND_JOINT_MIDDLE_TIP -> <<0, m, 0>>
              [] j = HAND_JOINT_RING_TIP -> <<0, 0, r>>
              [] j = HAND_JOINT_LITTLE_TIP -> <<-l, 0, 0>>
              [] OTHER -> <<0, -70, 0>>)]

\* xrLocateHandJointsEXT succeeding on an active hand with the joints pose,
\* those of the set invalid flagged neither position- nor orientation-valid.
Located(pose, invalid) ==
    [succeeded |-> TRUE, isActive |-> TRUE,
     joints |-> [j \in 0..(HAND_JOINT_COUNT - 1) |->
                    IF j \in invalid THEN JointLocation(FALSE, FALSE, <<999, 999, 999>>) ELSE pose[j]]]

\* xrLocateHandJointsEXT failing (succeeded FALSE), or reporting the hand
\* inactive.
NotLocated(succeeded) ==
    [succeeded |-> succeeded, isActive |-> FALSE,
     joints |-> [j \in 0..(HAND_JOINT_COUNT - 1) |-> JointLocation(FALSE, FALSE, Vec3Zero)]]

\* The runtime calls of UpdateHandTracking.
UpdateHandTrackingCalls(ht, vs) ==
    IF ~ht.initialized \/ ~IsVRSessionRunning(vs) THEN <<>>
    ELSE IF ~GetXrStageSpace(vs) \/ GetPredictedDisplayTime(vs) = 0 THEN <<>>
    ELSE (IF ht.handTracker[0] THEN <<Call("xrLocateHandJointsEXT", 0, GetPredictedDisplayTime(vs))>> ELSE <<>>)
         \o (IF ht.handTracker[1] THEN <<Call("xrLocateHandJointsEXT", 1, GetPredictedDisplayTime(vs))>> ELSE <<>>)

UpdateHandTracking(located) ==
    /\ apiCalls["UpdateHandTracking"] < MaxFrames
    /\ apiCalls' = [apiCalls EXCEPT !["UpdateHandTracking"] = @ + 1]
    /\ htState' = UpdateHands(htState, vrState, located)
    /\ xrCalls' = xrCalls \o UpdateHandTrackingCalls(htState, vrState)
    /\ UNCHANGED <<vrState, drawCommands, live, faults, rtLog, eventQueue, destroyRequested, rtClock, replayed, drawEpochs>>

\* ------------------------------------------- the library under any caller

\* The application calls the frame and drawing functions in any order once
\* InitApp has succeeded.  pc is "start" before InitApp and "api" after it.

FrameEvents == {StateChanged("READY"), StateChanged("STOPPING")}

CubePositions == {<<0, 1, -2>>}

GridSlices == {1, 2}

\* InitApp with every runtime call succeeding.
ApiInitApp ==
    /\ pc = "start"
    /\ InitApp("none")
    /\ pc' = "api"

ApiRuntimeEvent ==
    /\ pc = "api"
    /\ \E ev \in FrameEvents : RuntimeEvent(ev)

\* AppShouldClose with an event pending (without one it changes nothing).
ApiAppShouldClose ==
    /\ pc = "api"
    /\ eventQueue # <<>>
    /\ AppShouldClose(Len(eventQueue))
    /\ UNCHANGED pc

ApiBeginVRMode ==
    /\ pc = "api"
    /\ BeginVRMode(StereoViews)
    /\ UNCHANGED pc

ApiEndVRMode ==
    /\ pc = "api"
    /\ \E idx \in [0..1 -> ImageIndices] : EndVRMode(idx)
    /\ UNCHANGED pc

ApiDrawVRCuboid ==
    /\ pc = "api"
    /\ \E p \in CubePositions :
          Draw(DrawVRCuboid(vrState, drawCommands, p, <<1, 1, 1>>, NormalizeColor(RED)))
    /\ UNCHANGED pc

ApiDrawVRLine3D ==
    /\ pc = "api"
    /\ Draw(DrawVRLine3D(vrState, drawCommands, <<0, 0, 0>>, <<0, 2, 0>>, GRAY))
    /\ UNCHANGED pc

ApiDrawVRGrid ==
    /\ pc = "api"
    /\ \E n \in GridSlices : Draw(DrawVRGrid(vrState, drawCommands, n, 2))
    /\ UNCHANGED pc

Next ==
    \/ ApiInitApp
    \/ ApiRuntimeEvent
    \/ ApiAppShouldClose
    \/ ApiBeginVRMode
    \/ ApiEndVRMode
    \/ ApiDrawVRCuboid
    \/ ApiDrawVRLine3D
    \/ ApiDrawVRGrid

Spec == Init /\ [][Next]_vars

\* C1: for any sequence of BeginVRMode, draw and EndVRMode calls interleaved
\* with session-state events, what an EndVRMode replays was appended after the
\* most recent BeginVRMode call: no replayed command was recorded before that
\* call.
C1_ReplayOnlySinceLastBegin ==
    [][(apiCalls'["EndVRMode"] > apiCalls["EndVRMode"] /\ vrState.sessionRunning)
        => \A e \in 0..1 : \A i \in 1..Len(replayed'[e].draws) :
              drawEpochs[replayed'[e].draws[i].index + 1] = apiCalls["BeginVRMode"]]_vars

\* The buffer as RenderEye is to replay it: every command, in recorded order.
InRecordedOrder(cmds) ==
    [i \in 1..Len(cmds) |->
        [index |-> i - 1, type |-> cmds[i].type, position |-> cmds[i].position,
         size |-> cmds[i].size, color |-> cmds[i].color]]

\* C2: within one EndVRMode of a running session both eyes replay the same
\* commands, index 0 to drawCommandCount-1 in recorded order, with the type,
\* position, size and color recorded; the replay leaves drawCommands and
\* drawCommandCount as they were, and each eye is drawn with its own view and
\* projection matrix, the ones BeginVRMode computed for it.
C2_BothEyesReplaySameCommands ==
    [][(apiCalls'["EndVRMode"] > apiCalls["EndVRMode"] /\ vrState.sessionRunning)
        => /\ drawCommands' = drawCommands
           /\ \A e \in 0..1 : replayed'[e].ran /\ replayed'[e].draws = InRecordedOrder(drawCommands)
           /\ replayed'[0].view = vrState.headset.leftEyeView
           /\ replayed'[0].proj = vrState.headset.leftEyeProjection
           /\ replayed'[1].view = vrState.headset.rightEyeView
           /\ replayed'[1].proj = vrState.headset.rightEyeProjection]_vars

\* C2's case: both eyes replayed a buffer holding a cube and a line, under
\* different view and projection matrices.
C2_Witness ==
    /\ replayed[0].ran /\ replayed[1].ran
    /\ \E i, j \in 1..Len(replayed[1].draws) :
          /\ i < j
          /\ replayed[1].draws[i].type = CMD_DRAW_CUBE
          /\ replayed[1].draws[j].type = CMD_DRAW_LINE
    /\ replayed[0].view # replayed[1].view
    /\ replayed[0].proj # replayed[1].proj

\* --------------------------------------------------- lifecycle and events

\* InitApp with any outcome of its runtime calls, CloseApp at any time (also
\* twice, also after a failed InitApp), and the event poll in between.  pc is
\* "start" before InitApp, "api" after it succeeded, "failed" after it failed,
\* "closed" after CloseApp.

AllEvents == {StateChanged(s) : s \in SessionStates} \cup {InstanceLossPending, InteractionProfileChanged}

LifeInitApp ==
    /\ pc = "start"
    /\ \E f \in FailPoints : InitApp(f)
    /\ pc' = IF vrState'.initialized THEN "api" ELSE "failed"

LifeCloseApp ==
    /\ pc \in {"start", "api", "failed", "closed"}
    /\ CloseApp
    /\ pc' = "closed"

LifeRuntimeEvent ==
    /\ pc = "api"
    /\ \E ev \in AllEvents : RuntimeEvent(ev)

\* The activity is being destroyed: android_app.destroyRequested is set.
AndroidDestroy ==
    /\ pc = "api"
    /\ ~destroyRequested
    /\ destroyRequested' = TRUE
    /\ UNCHANGED <<pc, vrState, drawCommands, htState, live, faults, rtLog, eventQueue, rtClock, xrCalls, replayed, drawEpochs, apiCalls>>

LifeAppShouldClose ==
    /\ pc = "api"
    /\ \E n \in 0..Len(eventQueue) : AppShouldClose(n)
    /\ UNCHANGED pc

LifeNext ==
    \/ LifeInitApp
    \/ LifeCloseApp
    \/ LifeRuntimeEvent
    \/ AndroidDestroy
    \/ LifeAppShouldClose

LifeSpec == Init /\ [][LifeNext]_vars

\* C4: CloseApp after an InitApp that failed at any step, and CloseApp twice
\* in a row, destroys no handle twice and none after its parent is gone, and
\* leaves every handle field null.
C4_CloseAppAlwaysSafe ==
    pc = "closed" => (faults = {} /\ \A r \in Resources : ~vrState.h[r])

\* C5: when InitApp returns false, everything the earlier steps created has
\* been destroyed: no EGL context or display, XrInstance, XrSession, XrSpace,
\* XrActionSet or XrSwapchain is left alive.
C5_FailedInitLeavesNothingAlive ==
    pc = "failed" => live = {}

\* ------------------------------------------------------ a full command buffer

\* One frame of an application that fills the buffer to its capacity: it draws
\* a grid first or none (2046 slices record 4094 lines, 2048 slices ask for
\* 4098), then cubes and lines.

MaxOverflowDraws == 4

BigGridSlices == {2046, 2048}

OvInitApp ==
    /\ pc = "start"
    /\ InitApp("none")
    /\ pc' = "api"

OvSessionReady ==
    /\ pc = "api"
    /\ ~vrState.sessionRunning
    /\ RuntimeEvent(StateChanged("READY"))

OvAppShouldClose ==
    /\ pc = "api"
    /\ eventQueue # <<>>
    /\ AppShouldClose(Len(eventQueue))
    /\ UNCHANGED pc

OvBeginVRMode ==
    /\ pc = "api"
    /\ vrState.sessionRunning
    /\ apiCalls["BeginVRMode"] = 0
    /\ \E vws \in ViewSets : BeginVRMode(vws)
    /\ UNCHANGED pc

OvDrawVRGrid ==
    /\ pc = "api"
    /\ apiCalls["BeginVRMode"] = 1
    /\ apiCalls["Draw"] = 0
    /\ \E n \in BigGridSlices : DrawWithin(DrawVRGrid(vrState, drawCommands, n, 2), MaxOverflowDraws)
    /\ UNCHANGED pc

OvDrawVRCuboid ==
    /\ pc = "api"
    /\ apiCalls["BeginVRMode"] = 1
    /\ DrawWithin(DrawVRCuboid(vrState, drawCommands, <<0, 1, -2>>, <<1, 1, 1>>, NormalizeColor(RED)), MaxOverflowDraws)
    /\ UNCHANGED pc

OvDrawVRLine3D ==
    /\ pc = "api"
    /\ apiCalls["BeginVRMode"] = 1
    /\ DrawWithin(DrawVRLine3D(vrState, drawCommands, <<0, 0, 0>>, <<0, 2, 0>>, GRAY), MaxOverflowDraws)
    /\ UNCHANGED pc

OvEndVRMode ==
    /\ pc = "api"
    /\ \E idx \in [0..1 -> ImageIndices] : EndVRMode(idx)
    /\ UNCHANGED pc

OverflowNext ==
    \/ OvInitApp
    \/ OvSessionReady
    \/ OvAppShouldClose
    \/ OvBeginVRMode
    \/ OvDrawVRGrid
    \/ OvDrawVRCuboid
    \/ OvDrawVRLine3D
    \/ OvEndVRMode

OverflowSpec == Init /\ [][OverflowNext]_vars

IsPrefix(s, t) == Len(s) <= Len(t) /\ SubSeq(t, 1, Len(s)) = s

\* C3: drawCommandCount stays within 0..MAX_DRAW_COMMANDS (4096); a drawing
\* call only appends, so the commands recorded first are kept, and once 4096
\* are recorded a further drawing call leaves the buffer and the count as they
\* were; EndVRMode replays exactly the buffer, in recorded order.
C3_BufferCapacity ==
    [][/\ drawCommandCount' >= 0 /\ drawCommandCount' <= MAX_DRAW_COMMANDS
       /\ apiCalls'["Draw"] > apiCalls["Draw"]
            => /\ IsPrefix(drawCommands, drawCommands')
               /\ Len(drawCommands) = MAX_DRAW_COMMANDS => drawCommands' = drawCommands
       /\ (apiCalls'["EndVRMode"] > apiCalls["EndVRMode"] /\ vrState.sessionRunning)
            => \A e \in 0..1 : replayed'[e].draws = InRecordedOrder(drawCommands)]_vars

\* C3's case: the buffer is full, the last command kept is the second cube
\* drawn after a 4094-line grid, a fourth drawing call was dropped, and both
\* eyes replayed the 4096 commands.
C3_Witness ==
    /\ drawCommandCount = MAX_DRAW_COMMANDS
    /\ drawCommands[MAX_DRAW_COMMANDS].type = CMD_DRAW_CUBE
    /\ apiCalls["Draw"] = 4
    /\ \A e \in 0..1 : replayed[e].ran /\ replayed[e].draws = InRecordedOrder(drawCommands)

\* ------------------------------------------------------------ android_main

\* The application's entry point: InitApp, InitHandTracking, SetVRClearColor,
\* then while (!AppShouldClose) { BeginVRMode; SyncControllers; inLoop;
\* EndVRMode }, then ShutdownHandTracking and CloseApp.  pc is the position in
\* it; inLoop is UpdateHandTracking when hand tracking is enabled ("hands"),
\* then the drawing calls ("draw").  The runtime queues events between two
\* iterations and in the middle of one; only AppShouldClose reads the queue.

LoopEvents == {StateChanged("READY"), StateChanged("STOPPING"), StateChanged("EXITING")}

\* What the runtime reports to the loop's SyncControllers for the two hands.
LoopHands ==
    { [i \in 0..1 |-> HandSample(TRUE, TRUE, <<1, 1, -1>>, <<0, 1, 0, 0>>, TRUE, <<0, 0, 1>>, i = 0)],
      [i \in 0..1 |-> HandSample(i = 1, i = 1, <<2, 1, 0>>, QuatIdentity, FALSE, <<5, 5, 5>>, FALSE)] }

\* What the runtime answers the loop's UpdateHandTracking for the two hands:
\* the left hand located and the right one not, or both located.
LoopLocated ==
    { [i \in 0..1 |-> IF i = 0 THEN Located(HandPose(25, 110, 40, 40, 40), {}) ELSE NotLocated(TRUE)],
      [i \in 0..1 |-> Located(HandPose(60, 90, 90, 90, 90), {})] }

\* What the runtime reports to the loop's SyncControllers for the head.
LoopHead == [position |-> <<0, 2, 0>>, orientation |-> QuatIdentity, menu |-> FALSE]

LoopInitApp ==
    /\ pc = "start"
    /\ \E f \in {"none", "xrCreateSession"} : InitApp(f)
    /\ pc' = IF vrState'.initialized THEN "initHands" ELSE "done"

LoopInitHandTracking ==
    /\ pc = "initHands"
    /\ \E o \in HandTrackingOutcomes : InitHandTracking(o)
    /\ pc' = "clearColor"

LoopSetVRClearColor ==
    /\ pc = "clearColor"
    /\ SetVRClearColor(<<8, 8, 20, 255>>)
    /\ pc' = "top"

LoopRuntimeEvent ==
    /\ pc \in {"top", "draw"}
    /\ \E ev \in LoopEvents : RuntimeEvent(ev)

\* The loop going on whatever AppShouldClose returns.
LoopAppShouldClose_KeepsLooping ==
    /\ pc = "top"
    /\ AppShouldClose(Len(eventQueue))
    /\ pc' = "begin"

LoopAppShouldClose ==
    /\ pc = "top"
    /\ AppShouldClose(Len(eventQueue))
    /\ pc' = IF vrState'.shouldExit THEN "shutdownHands" ELSE "begin"

LoopBeginVRMode ==
    /\ pc = "begin"
    /\ BeginVRMode(StereoViews)
    /\ pc' = "sync"

LoopSyncControllers ==
    /\ pc = "sync"
    /\ \E hands \in LoopHands : SyncControllers(hands, FALSE, LoopHead)
    /\ pc' = "hands"

\* inLoop: if (game.handTrackingEnabled) UpdateHandTracking();
LoopUpdateHandTracking ==
    /\ pc = "hands"
    /\ IsHandTrackingActive(htState)
    /\ \E located \in LoopLocated : UpdateHandTracking(located)
    /\ pc' = "draw"

LoopNoHandTracking ==
    /\ pc = "hands"
    /\ ~IsHandTrackingActive(htState)
    /\ pc' = "draw"
    /\ UNCHANGED <<vrState, drawCommands, htState, live, faults, rtLog, eventQueue, destroyRequested, rtClock, xrCalls, replayed, drawEpochs, apiCalls>>

LoopDrawVRCuboid ==
    /\ pc = "draw"
    /\ Draw(DrawVRCuboid(vrState, drawCommands, <<0, 1, -2>>, <<1, 1, 1>>, NormalizeColor(RED)))
    /\ UNCHANGED pc

LoopDrawVRGrid ==
    /\ pc = "draw"
    /\ Draw(DrawVRGrid(vrState, drawCommands, 1, 2))
    /\ UNCHANGED pc

\* inLoop returns.
LoopInLoopReturns ==
    /\ pc = "draw"
    /\ pc' = "end"
    /\ UNCHANGED <<vrState, drawCommands, htState, live, faults, rtLog, eventQueue, destroyRequested, rtClock, xrCalls, replayed, drawEpochs, apiCalls>>

LoopEndVRMode ==
    /\ pc = "end"
    /\ \E idx \in [0..1 -> ImageIndices] : EndVRMode(idx)
    /\ pc' = "top"

LoopShutdownHandTracking ==
    /\ pc = "shutdownHands"
    /\ ShutdownHandTracking
    /\ pc' = "close"

LoopCloseApp ==
    /\ pc = "close"
    /\ CloseApp
    /\ pc' = "done"

LoopNext ==
    \/ LoopInitApp
    \/ LoopInitHandTracking
    \/ LoopSetVRClearColor
    \/ LoopRuntimeEvent
    \/ LoopAppShouldClose
    \/ LoopBeginVRMode
    \/ LoopSyncControllers
    \/ LoopUpdateHandTracking
    \/ LoopNoHandTracking
    \/ LoopDrawVRCuboid
    \/ LoopDrawVRGrid
    \/ LoopInLoopReturns
    \/ LoopEndVRMode
    \/ LoopShutdownHandTracking
    \/ LoopCloseApp

LoopSpec == Init /\ [][LoopNext]_vars

\* The frame calls of a history and the replay between them, each with the
\* eye it is about.
FrameCallNames ==
    {"xrWaitFrame", "xrBeginFrame", "xrLocateViews", "xrAcquireSwapchainImage",
     "xrWaitSwapchainImage", "RenderEye", "xrReleaseSwapchainImage", "xrEndFrame"}

IsFrameCall(c) == c.call \in FrameCallNames

FrameTrace(calls) ==
    LET f == SelectSeq(calls, IsFrameCall)
    IN [i \in 1..Len(f) |-> <<f[i].call, f[i].who>>]

BeginTrace == <<<<"xrWaitFrame", -1>>, <<"xrBeginFrame", -1>>, <<"xrLocateViews", -1>>>>

EyeTrace(i) ==
    <<<<"xrAcquireSwapchainImage", i>>, <<"xrWaitSwapchainImage", i>>,
      <<"RenderEye", i>>, <<"xrReleaseSwapchainImage", i>>>>

WholeFrameTrace == BeginTrace \o EyeTrace(0) \o EyeTrace(1) \o <<<<"xrEndFrame", -1>>>>

InIteration == pc \in {"begin", "sync", "hands", "draw", "end"}

\* C6: in an iteration of the main loop that finds the session not running,
\* no step up to the next AppShouldClose makes a frame call (xrWaitFrame,
\* xrBeginFrame, xrLocateViews, swapchain acquire, wait or release, replay,
\* xrEndFrame), and no drawing call of the iteration changes the buffer.
C6_IdleIterationIsSkipped ==
    [][(InIteration /\ ~vrState.sessionRunning)
        => /\ FrameTrace(xrCalls') = <<>>
           /\ replayed' = replayed
           /\ drawCommands' = drawCommands
           /\ ~vrState'.sessionRunning]_vars

\* C6's case: the first iteration found the session not running, made two
\* drawing calls and has reached the next AppShouldClose.
C6_Witness ==
    /\ pc = "top"
    /\ apiCalls["BeginVRMode"] = 1 /\ apiCalls["EndVRMode"] = 1
    /\ apiCalls["Draw"] = 2
    /\ ~vrState.sessionRunning
    /\ drawCommands = <<>> /\ FrameTrace(xrCalls) = <<>>

\* C7: in an iteration of the main loop with the session running, the frame
\* calls made since AppShouldClose are: none before BeginVRMode; xrWaitFrame,
\* xrBeginFrame, xrLocateViews, once each in that order, from BeginVRMode
\* until EndVRMode, which is when the application draws; and when the loop is
\* back at AppShouldClose those three followed by acquire, wait, replay and
\* release for eye 0, the same for eye 1, and xrEndFrame, each once.  The next
\* xrWaitFrame is made only by the next iteration's BeginVRMode.
C7_FrameCallOrder ==
    vrState.sessionRunning =>
        /\ pc = "begin" => FrameTrace(xrCalls) = <<>>
        /\ pc \in {"sync", "hands", "draw", "end"} => FrameTrace(xrCalls) = BeginTrace
        /\ pc = "top" => FrameTrace(xrCalls) = WholeFrameTrace

\* C7's case: a second running iteration has drawn and submitted its frame.
C7_Witness ==
    /\ pc = "top"
    /\ vrState.sessionRunning
    /\ rtClock = 2
    /\ drawCommands # <<>>
    /\ FrameTrace(xrCalls) = WholeFrameTrace

TimedCallNames == {"xrLocateViews", "xrLocateSpace", "xrLocateHandJointsEXT", "xrEndFrame"}

\* C8: every display time passed to a runtime call since AppShouldClose (view
\* locate, controller and head locate, hand-joint locate, frame submit) is
\* the time this iteration's one xrWaitFrame reported.
C8_OneDisplayTimePerFrame ==
    /\ Cardinality({i \in 1..Len(xrCalls) : xrCalls[i].call = "xrWaitFrame"}) <= 1
    /\ \A i \in 1..Len(xrCalls) :
          xrCalls[i].call \in TimedCallNames
             => \E j \in 1..(i - 1) :
                   xrCalls[j].call = "xrWaitFrame" /\ xrCalls[j].time = xrCalls[i].time

\* C8's case: the second frame located the views, both controllers, the head
\* and both hands and was submitted.
C8_Witness ==
    /\ pc = "top"
    /\ rtClock = 2
    /\ \A n \in TimedCallNames : \E i \in 1..Len(xrCalls) : xrCalls[i].call = n /\ xrCalls[i].time = 2
    /\ \A w \in 0..2 : \E i \in 1..Len(xrCalls) : xrCalls[i].call = "xrLocateSpace" /\ xrCalls[i].who = w
    /\ \A w \in 0..1 : \E i \in 1..Len(xrCalls) : xrCalls[i].call = "xrLocateHandJointsEXT" /\ xrCalls[i].who = w

\* ---------------------------------------------- input under any caller

\* The application calls AppShouldClose, BeginVRMode and SyncControllers in
\* any order once InitApp has succeeded, and the runtime reports any of the
\* samples to each sync, the same for both hands.

InInitApp ==
    /\ pc = "start"
    /\ InitApp("none")
    /\ pc' = "api"

InRuntimeEvent ==
    /\ pc = "api"
    /\ \E ev \in FrameEvents : RuntimeEvent(ev)

InAppShouldClose ==
    /\ pc = "api"
    /\ eventQueue # <<>>
    /\ AppShouldClose(Len(eventQueue))
    /\ UNCHANGED pc

InBeginVRMode ==
    /\ pc = "api"
    /\ BeginVRMode(StereoViews)
    /\ UNCHANGED pc

InSyncControllers ==
    /\ pc = "api"
    /\ \E s \in HandSamples : SyncControllers([i \in 0..1 |-> s], LoopHead.menu, LoopHead)
    /\ UNCHANGED pc

InputNext ==
    \/ InInitApp
    \/ InRuntimeEvent
    \/ InAppShouldClose
    \/ InBeginVRMode
    \/ InSyncControllers

InputSpec == Init /\ [][InputNext]_vars

\* A step that is a SyncControllers call made while the session is running.
RunningSync == apiCalls'["SyncControllers"] > apiCalls["SyncControllers"] /\ vrState.sessionRunning

\* The flags the runtime reported for hand i in the latest SyncControllers of
\* the history calls.
LatestLocationFlags(calls, i) == calls[Len(calls) - 2 + i].flags

\* C9: when a controller is tracked, with position X and orientation Q, and
\* the runtime does not flag its pose (position and orientation) as valid in
\* the next running SyncControllers, the controller comes out of that sync
\* with isTracking false, position X and orientation Q.
C9_LostPoseKeepsLastValues ==
    [][RunningSync =>
        \A i \in 0..1 :
           (vrState.controllers[i].isTracking
               /\ ~({"POSITION_VALID", "ORIENTATION_VALID"} \subseteq LatestLocationFlags(xrCalls', i)))
           => /\ ~GetController(vrState', i).isTracking
              /\ GetController(vrState', i).position = GetController(vrState, i).position
              /\ GetController(vrState', i).orientation = GetController(vrState, i).orientation]_vars

AllZeroSnapshots(vs) ==
    /\ \A i \in 0..1 : GetController(vs, i) = ZeroController
    /\ GetHeadset(vs) = ZeroHeadset

\* What SyncControllers writes of the snapshots: the controllers, and the
\* position and orientation of the headset.
AllZeroInput(vs) ==
    /\ \A i \in 0..1 : GetController(vs, i) = ZeroController
    /\ GetHeadset(vs).position = Vec3Zero
    /\ GetHeadset(vs).orientation = QuatZero

\* A step that is a SyncControllers call made while the session is not running.
IdleSync == apiCalls'["SyncControllers"] > apiCalls["SyncControllers"] /\ ~vrState.sessionRunning

\* C10 as stated: SyncControllers while the session is not running leaves
\* both controller snapshots and the headset snapshot as they were, and until
\* a SyncControllers runs with the session running the snapshots stay all-zero.
C10_IdleSyncAndZeroSnapshots ==
    [][/\ IdleSync => \A i \in 0..1 : /\ GetController(vrState', i) = GetController(vrState, i)
                                      /\ GetHeadset(vrState') = GetHeadset(vrState)
       /\ (AllZeroSnapshots(vrState) /\ ~RunningSync) => AllZeroSnapshots(vrState')]_vars

\* C10 amended: SyncControllers while the session is not running leaves both
\* controller snapshots and the headset snapshot as they were, and until a
\* SyncControllers runs with the session running both controller snapshots
\* and the headset's position and orientation stay all-zero (the headset's
\* per-eye data is written by BeginVRMode).
C10_IdleSyncAndZeroInput ==
    [][/\ IdleSync => \A i \in 0..1 : /\ GetController(vrState', i) = GetController(vrState, i)
                                      /\ GetHeadset(vrState') = GetHeadset(vrState)
       /\ (AllZeroInput(vrState) /\ ~RunningSync) => AllZeroInput(vrState')]_vars

\* C10's case: two SyncControllers calls were made with the session not
\* running and none with it running, around a frame BeginVRMode began: the
\* controllers and the headset pose are still all-zero, the headset's per-eye
\* data is not.
C10_Witness ==
    /\ apiCalls["SyncControllers"] = 2
    /\ ~vrState.sessionRunning
    /\ rtClock > 0
    /\ AllZeroInput(vrState)
    /\ GetHeadset(vrState) # ZeroHeadset

\* ------------------------------------------- drawing under any caller

\* The application makes any of the seven drawing calls at any time once
\* InitApp has succeeded, whatever the session's state, around BeginVRMode
\* calls and the polls that start and stop the session.

DsInitApp ==
    /\ pc = "start"
    /\ InitApp("none")
    /\ pc' = "api"

DsRuntimeEvent ==
    /\ pc = "api"
    /\ \E ev \in FrameEvents : RuntimeEvent(ev)

DsAppShouldClose ==
    /\ pc = "api"
    /\ eventQueue # <<>>
    /\ AppShouldClose(Len(eventQueue))
    /\ UNCHANGED pc

DsBeginVRMode ==
    /\ pc = "api"
    /\ BeginVRMode(StereoViews)
    /\ UNCHANGED pc

DsDrawVRCube ==
    /\ pc = "api"
    /\ Draw(DrawVRCube(vrState, drawCommands, <<0, 1, -2>>, 1, RED))
    /\ UNCHANGED pc

DsDrawVRCuboid ==
    /\ pc = "api"
    /\ Draw(DrawVRCuboid(vrState, drawCommands, <<0, 1, -2>>, <<1, 2, 3>>, NormalizeColor(BLUE)))
    /\ UNCHANGED pc

DsDrawVRLine3D ==
    /\ pc = "api"
    /\ Draw(DrawVRLine3D(vrState, drawCommands, <<0, 0, 0>>, <<0, 2, 0>>, GRAY))
    /\ UNCHANGED pc

DsDrawVRPlane ==
    /\ pc = "api"
    /\ Draw(DrawVRPlane(vrState, drawCommands, <<0, 0, 0>>, <<4, 0, 4>>, GREEN))
    /\ UNCHANGED pc

DsDrawVRGrid ==
    /\ pc = "api"
    /\ Draw(DrawVRGrid(vrState, drawCommands, 2, 2))
    /\ UNCHANGED pc

DsDrawVRAxes ==
    /\ pc = "api"
    /\ Draw(DrawVRAxes(vrState, drawCommands, <<0, 1, 0>>, 1))
    /\ UNCHANGED pc

DsDrawVRSphere ==
    /\ pc = "api"
    /\ Draw(DrawVRSphere(vrState, drawCommands, <<1, 1, 1>>, 1, GRAY))
    /\ UNCHANGED pc

DrawNext ==
    \/ DsInitApp
    \/ DsRuntimeEvent
    \/ DsAppShouldClose
    \/ DsBeginVRMode
    \/ DsDrawVRCube
    \/ DsDrawVRCuboid
    \/ DsDrawVRLine3D
    \/ DsDrawVRPlane
    \/ DsDrawVRGrid
    \/ DsDrawVRAxes
    \/ DsDrawVRSphere

DrawSpec == Init /\ [][DrawNext]_vars

\* A step that is a drawing call made while the session is not running.
IdleDraw == apiCalls'["Draw"] > apiCalls["Draw"] /\ ~vrState.sessionRunning

\* C11: a drawing call (DrawVRCube, DrawVRCuboid, DrawVRLine3D, DrawVRPlane,
\* DrawVRGrid, DrawVRAxes, DrawVRSphere) made while the session is not running
\* leaves the draw-command buffer and its count as they were.
C11_IdleDrawChangesNothing ==
    [][IdleDraw => (drawCommands' = drawCommands /\ drawCommandCount' = drawCommandCount)]_vars

\* C11's case: no BeginVRMode has cleared the buffer and two drawing calls
\* were made, of which only one recorded anything (the other was made while
\* the session was not running); the session has stopped with the DrawVRAxes
\* lines still in the buffer.
C11_Witness ==
    /\ apiCalls["Draw"] = 2
    /\ apiCalls["BeginVRMode"] = 0
    /\ vrState.sessionState = "STOPPING"
    /\ ~vrState.sessionRunning
    /\ drawCommandCount = 3
    /\ \A i \in 1..3 : drawCommands[i].type = CMD_DRAW_LINE

\* ------------------------------------------- the should-exit query

\* An application that calls AppShouldClose once or twice in a row, then
\* runs a frame.  pc is "api" between two rounds, "polled" after the first
\* call of a round, "polledAgain" after a second call that directly follows
\* it, "frame" between BeginVRMode and EndVRMode.  The runtime queues events
\* and Android requests the destruction between rounds only, so that nothing
\* happens between the two calls of a round; xrPollEvent may fail before it
\* has delivered every pending event.

PsInitApp ==
    /\ pc = "start"
    /\ InitApp("none")
    /\ pc' = "api"

PsRuntimeEvent ==
    /\ pc = "api"
    /\ \E ev \in AllEvents : RuntimeEvent(ev)

PsAppShouldClose ==
    /\ pc = "api"
    /\ \E n \in 0..Len(eventQueue) : AppShouldClose(n)
    /\ pc' = "polled"

PsAppShouldCloseAgain ==
    /\ pc = "polled"
    /\ \E n \in 0..Len(eventQueue) : AppShouldClose(n)
    /\ pc' = "polledAgain"

PsBeginVRMode ==
    /\ pc \in {"polled", "polledAgain"}
    /\ BeginVRMode(StereoViews)
    /\ pc' = "frame"

PsEndVRMode ==
    /\ pc = "frame"
    /\ \E idx \in [0..1 -> ImageIndices] : EndVRMode(idx)
    /\ pc' = "api"

PollNext ==
    \/ PsInitApp
    \/ PsRuntimeEvent
    \/ AndroidDestroy
    \/ PsAppShouldClose
    \/ PsAppShouldCloseAgain
    \/ PsBeginVRMode
    \/ PsEndVRMode

PollSpec == Init /\ [][PollNext]_vars

\* A step that is an AppShouldClose call, and the events it was delivered.
PollStep == (pc = "api" /\ pc' = "polled") \/ (pc = "polled" /\ pc' = "polledAgain")

Delivered == SubSeq(eventQueue, 1, Len(eventQueue) - Len(eventQueue'))

SessionCallNames == {"xrBeginSession", "xrEndSession"}

\* C12 as stated: an AppShouldClose call changes neither the session state,
\* the running flag, the focus flag nor the exit flag and neither begins nor
\* ends the runtime session, and the second of two consecutive calls returns
\* what the first returned.
C12_PureIdempotentQuery ==
    [][PollStep =>
        /\ vrState'.sessionState = vrState.sessionState
        /\ vrState'.sessionRunning = vrState.sessionRunning
        /\ vrState'.sessionFocused = vrState.sessionFocused
        /\ vrState'.shouldExit = vrState.shouldExit
        /\ \A i \in 1..Len(xrCalls') : xrCalls'[i].call \notin SessionCallNames
        /\ pc = "polled" => vrState'.shouldExit = vrState.shouldExit]_vars

\* C12 amended: an AppShouldClose call that is delivered no runtime event and
\* finds no destroy request it has not recorded yet changes no library state
\* and neither begins nor ends the runtime session, and the second of two
\* consecutive calls returns what the first returned whenever the first left
\* no event pending.
C12_PureWhenNothingPending ==
    [][PollStep =>
        /\ (Delivered = <<>> /\ (destroyRequested => vrState.shouldExit))
              => (vrState' = vrState /\ xrCalls' = <<>>)
        /\ (pc = "polled" /\ eventQueue = <<>>) => vrState'.shouldExit = vrState.shouldExit]_vars

\* C12's case: in the first round the first call was delivered READY and
\* began the session, and the call that directly followed it found nothing
\* pending.
C12_Witness ==
    /\ pc = "polledAgain"
    /\ apiCalls["BeginVRMode"] = 0
    /\ vrState.sessionState = "READY" /\ vrState.sessionRunning
    /\ ~vrState.shouldExit
    /\ eventQueue = <<>> /\ xrCalls = <<>>

Terminal(ev) ==
    \/ ev.type = "SESSION_STATE_CHANGED" /\ ev.state \in {"EXITING", "LOSS_PENDING"}
    \/ ev.type = "INSTANCE_LOSS_PENDING"

\* C13: the exit flag is false when InitApp returns; an AppShouldClose call
\* returns true iff the flag was set before or the call finds an Android
\* destroy request or is delivered an EXITING or LOSS_PENDING session state or
\* an instance-loss-pending event; no other operation (the runtime queueing
\* an event, BeginVRMode, EndVRMode) changes the flag, so that once true has
\* been returned every later call returns true.
C13_ExitFlagIsSetOnceAndKept ==
    [][/\ pc = "start" => ~vrState'.shouldExit
       /\ PollStep =>
             (vrState'.shouldExit <=>
                 (vrState.shouldExit \/ destroyRequested \/ \E i \in 1..Len(Delivered) : Terminal(Delivered[i])))
       /\ (~PollStep /\ pc # "start") => vrState'.shouldExit = vrState.shouldExit]_vars

\* C13's case: the flag was set by a runtime event (no destroy request), the
\* session was made ready and a frame was run after that, and the call that
\* followed returned true again.
C13_Witness ==
    /\ pc = "polled"
    /\ vrState.shouldExit /\ ~destroyRequested
    /\ vrState.sessionState = "READY" /\ vrState.sessionRunning
    /\ apiCalls["EndVRMode"] >= 1 /\ rtClock >= 1

\* ------------------------------------------------------- hand snapshots

\* A step that is an UpdateHandTracking call.
HandUpdate == apiCalls'["UpdateHandTracking"] > apiCalls["UpdateHandTracking"]

\* A hand with nothing left of an earlier pose.
Cleared(hand) ==
    /\ \A j \in 0..(HAND_JOINT_COUNT - 1) : ~hand.joints[j].isValid
    /\ hand.pinchStrength[1] = 0
    /\ ~hand.isPinching /\ ~hand.isFist /\ ~hand.isPointing /\ ~hand.isOpen

\* C14: an UpdateHandTracking call that leaves a hand with isTracking false
\* (the locate failed, the runtime reported the hand inactive, hand tracking
\* is not initialized, or the session is not running) leaves all 26 joints of
\* that hand with isValid false, pinchStrength 0 and isPinching, isFist,
\* isPointing and isOpen false.
C14_UntrackedHandIsCleared ==
    [][HandUpdate => \A h \in 0..1 : ~htState'.hands[h].isTracking => Cleared(htState'.hands[h])]_vars

\* C15: an InitHandTracking that fails (the extension is missing, an entry
\* point is not resolved, the creation of the left or of the right tracker
\* fails) returns false, leaves no hand tracker alive and IsHandTrackingActive
\* false, and changes nothing of the core's state or resources; the call
\* fails exactly when the runtime's answer is one of those four.
C15_FailedInitHandTracking ==
    [][pc = "initHands" =>
        /\ \A o \in HandTrackingOutcomes :
              InitHandTrackingResult(htState, vrState, ResState(vrState), o).ok = (o = "ok")
        /\ ~htState'.initialized =>
              /\ ~IsHandTrackingActive(htState')
              /\ live' \cap HandTrackerResources = {}
              /\ \A h \in 0..1 : ~htState'.handTracker[h]
              /\ live' = live /\ faults' = faults
              /\ vrState' = vrState]_vars

\* C15's case: the right tracker could not be created, the left one was
\* created and destroyed again, and the loop has run a frame on the
\* controllers alone.
C15_Witness ==
    /\ pc = "top"
    /\ ~IsHandTrackingActive(htState)
    /\ \E i, j \in 1..Len(rtLog) :
          i < j /\ rtLog[i] = <<"create", "handTracker0">> /\ rtLog[j] = <<"destroy", "handTracker0">>
    /\ live \cap HandTrackerResources = {}
    /\ apiCalls["EndVRMode"] >= 1 /\ rtClock >= 1
    /\ apiCalls["UpdateHandTracking"] = 0
    /\ vrState.controllers[0].isTracking

\* ---------------------------------------------------------------- gestures

\* An application that starts the session and hand tracking, begins a frame
\* and updates the hands: once with the left hand in any of the poses of a
\* range of pinch distances or of fingertip distances, or several times with
\* one of a few poses of which some joints are not valid.  The right hand is
\* not located.  pc is "hands" once the frame has begun and "updated" when
\* no further update follows.

\* thumb-tip to index-tip distances, in millimetres: 0..MaxPinchDist
MaxPinchDist == 100

\* fingertip to palm distances, in millimetres, at and next to the thresholds
FingerDists == {49, 50, 59, 60, 80, 81, 100, 101}

GestureJoints ==
    {HAND_JOINT_PALM, HAND_JOINT_THUMB_TIP, HAND_JOINT_INDEX_TIP, HAND_JOINT_MIDDLE_TIP,
     HAND_JOINT_RING_TIP, HAND_JOINT_LITTLE_TIP}

\* a pinching and pointing hand, a pinching fist, an open hand
GesturePoses == {HandPose(25, 110, 40, 40, 40), HandPose(25, 40, 40, 40, 40), HandPose(60, 90, 90, 90, 90)}

InvalidSets == {{}} \cup {{j} : j \in GestureJoints} \cup {GestureJoints}

\* xrLocateHandJointsEXT succeeding with the joints of the set invalid
\* flagged position-valid but not orientation-valid.
LocatedWithoutOrientation(pose, invalid) ==
    [succeeded |-> TRUE, isActive |-> TRUE,
     joints |-> [j \in 0..(HAND_JOINT_COUNT - 1) |->
                    IF j \in invalid THEN [pose[j] EXCEPT !.oriValid = FALSE] ELSE pose[j]]]

LeftHandOnly(loc) == [i \in 0..1 |-> IF i = 0 THEN loc ELSE NotLocated(TRUE)]

GsInitApp ==
    /\ pc = "start"
    /\ InitApp("none")
    /\ pc' = "api"

GsSessionReady ==
    /\ pc = "api"
    /\ vrState.sessionState = "UNKNOWN"
    /\ RuntimeEvent(StateChanged("READY"))

GsAppShouldClose ==
    /\ pc = "api"
    /\ eventQueue # <<>>
    /\ AppShouldClose(Len(eventQueue))
    /\ UNCHANGED pc

GsInitHandTracking ==
    /\ pc = "api"
    /\ ~IsHandTrackingActive(htState)
    /\ InitHandTracking("ok")
    /\ UNCHANGED pc

GsBeginVRMode ==
    /\ pc = "api"
    /\ vrState.sessionRunning
    /\ IsHandTrackingActive(htState)
    /\ BeginVRMode(StereoViews)
    /\ pc' = "hands"

GsPinch ==
    /\ pc = "hands"
    /\ apiCalls["UpdateHandTracking"] = 0
    /\ \E d \in 0..MaxPinchDist : UpdateHandTracking(LeftHandOnly(Located(HandPose(d, 90, 90, 90, 90), {})))
    /\ pc' = "updated"

GsFingers ==
    /\ pc = "hands"
    /\ apiCalls["UpdateHandTracking"] = 0
    /\ \E i, m, r, l \in FingerDists : UpdateHandTracking(LeftHandOnly(Located(HandPose(60, i, m, r, l), {})))
    /\ pc' = "updated"

GsInvalidJoints ==
    /\ pc = "hands"
    /\ \E pose \in GesturePoses : \E invalid \in InvalidSets :
          \/ UpdateHandTracking(LeftHandOnly(Located(pose, invalid)))
          \/ UpdateHandTracking(LeftHandOnly(LocatedWithoutOrientation(pose, invalid)))
    /\ UNCHANGED pc

GestureNext ==
    \/ GsInitApp
    \/ GsSessionReady
    \/ GsAppShouldClose
    \/ GsInitHandTracking
    \/ GsBeginVRMode
    \/ GsPinch
    \/ GsFingers
    \/ GsInvalidJoints

GestureSpec == Init /\ [][GestureNext]_vars

FracEq(a, b) == a[1] * b[2] = b[1] * a[2]

\* clamp(1 - (d - 20) / (80 - 20), 0, 1) for a distance of d millimetres
ClampedPinch(d) == IF d <= 20 THEN <<1, 1>> ELSE IF d >= 80 THEN <<0, 1>> ELSE <<80 - d, 60>>

Dist(hand, j1, j2) == Vector3Len(Vector3Sub(hand.joints[j1].position, hand.joints[j2].position))

AllValid(hand, js) == \A j \in js : hand.joints[j].isValid

\* C16: a tracked hand with valid thumb-tip and index-tip joints d
\* millimetres apart has pinchStrength = clamp(1 - (d - 20)/(80 - 20), 0, 1)
\* and isPinching iff pinchStrength > 0.8; at 20 mm the strength is 1 and
\* isPinching true, at 80 mm 0 and false, at 50 mm 1/2 and false.
C16_PinchStrength ==
    \A h \in 0..1 :
       LET hand == htState.hands[h]
           d == Dist(hand, HAND_JOINT_THUMB_TIP, HAND_JOINT_INDEX_TIP)
       IN (hand.isTracking /\ AllValid(hand, {HAND_JOINT_THUMB_TIP, HAND_JOINT_INDEX_TIP})) =>
            /\ FracEq(hand.pinchStrength, ClampedPinch(d))
            /\ hand.isPinching <=> FracLess(<<8, 10>>, hand.pinchStrength)
            /\ d = 20 => (FracEq(hand.pinchStrength, <<1, 1>>) /\ hand.isPinching)
            /\ d = 80 => (FracEq(hand.pinchStrength, <<0, 1>>) /\ ~hand.isPinching)
            /\ d = 50 => (FracEq(hand.pinchStrength, <<1, 2>>) /\ ~hand.isPinching)

\* C16's case: the left hand is tracked with the thumb tip 50 mm from the
\* index tip: the strength is a half, and the hand is not pinching.
C16_Witness ==
    LET hand == htState.hands[0]
    IN /\ hand.isTracking
       /\ AllValid(hand, {HAND_JOINT_THUMB_TIP, HAND_JOINT_INDEX_TIP})
       /\ Dist(hand, HAND_JOINT_THUMB_TIP, HAND_JOINT_INDEX_TIP) = 50
       /\ FracEq(hand.pinchStrength, <<1, 2>>) /\ ~hand.isPinching

FingerJoints == {HAND_JOINT_PALM, HAND_JOINT_INDEX_TIP, HAND_JOINT_MIDDLE_TIP, HAND_JOINT_RING_TIP, HAND_JOINT_LITTLE_TIP}

\* C17: for a tracked hand whose palm and four non-thumb fingertips are
\* valid, with i, m, r and l the distances in millimetres of the index,
\* middle, ring and little tip from the palm: isFist iff all four are < 50,
\* isPointing iff i > 100, m < 60 and r < 60, isOpen iff all four are > 80.
C17_FingerGestures ==
    \A h \in 0..1 :
       LET hand == htState.hands[h]
           i == Dist(hand, HAND_JOINT_INDEX_TIP, HAND_JOINT_PALM)
           m == Dist(hand, HAND_JOINT_MIDDLE_TIP, HAND_JOINT_PALM)
           r == Dist(hand, HAND_JOINT_RING_TIP, HAND_JOINT_PALM)
           l == Dist(hand, HAND_JOINT_LITTLE_TIP, HAND_JOINT_PALM)
       IN (hand.isTracking /\ AllValid(hand, FingerJoints)) =>
            /\ hand.isFist <=> (i < 50 /\ m < 50 /\ r < 50 /\ l < 50)
            /\ hand.isPointing <=> (i > 100 /\ m < 60 /\ r < 60)
            /\ hand.isOpen <=> (i > 80 /\ m > 80 /\ r > 80 /\ l > 80)

\* C17's case: the left hand points, its index tip 101 mm and its middle and
\* ring tips 59 mm from the palm, and is neither a fist nor open.
C17_Witness ==
    LET hand == htState.hands[0]
    IN /\ hand.isTracking /\ AllValid(hand, FingerJoints)
       /\ Dist(hand, HAND_JOINT_INDEX_TIP, HAND_JOINT_PALM) = 101
       /\ Dist(hand, HAND_JOINT_MIDDLE_TIP, HAND_JOINT_PALM) = 59
       /\ Dist(hand, HAND_JOINT_RING_TIP, HAND_JOINT_PALM) = 59
       /\ hand.isPointing /\ ~hand.isFist /\ ~hand.isOpen

\* C18: for a tracked hand, a gesture is false (and pinchStrength 0) when a
\* joint whose position its computation reads is not valid: the pinch reads
\* the thumb and index tips; the fist and the open hand read the palm and
\* the index, middle, ring and little tips; pointing reads the palm and the
\* index, middle and ring tips.
C18_InvalidJointGestureFalse ==
    \A h \in 0..1 :
       LET hand == htState.hands[h]
       IN hand.isTracking =>
            /\ ~AllValid(hand, {HAND_JOINT_THUMB_TIP, HAND_JOINT_INDEX_TIP})
                  => (~hand.isPinching /\ hand.pinchStrength[1] = 0)
            /\ ~AllValid(hand, FingerJoints) => (~hand.isFist /\ ~hand.isOpen)
            /\ ~AllValid(hand, {HAND_JOINT_PALM, HAND_JOINT_INDEX_TIP, HAND_JOINT_MIDDLE_TIP, HAND_JOINT_RING_TIP})
                  => ~hand.isPointing

\* ------------------------------------------------- views under the player offset

\* An application that moves and turns the player between frames: pc is
\* "api" between two frames, where it polls the events and sets the player
\* offset, and "frame" from BeginVRMode to EndVRMode.

PlayerPositions == {<<0, 0, 0>>, <<10, 0, 0>>, <<3, 1, -2>>}

\* player yaws in degrees
PlayerYaws == {0, 90, 180, 270}

\* What xrLocateViews reports: the eyes level and looking ahead, the left eye
\* one unit ahead of the stage origin, and the eyes turned half around.
RawViewSets ==
    { StereoViews,
      [i \in 0..1 |-> IF i = 0 THEN ViewOf(<<0, 0, -1>>, -2, 1) ELSE ViewOf(<<2, 0, -1>>, -1, 2)],
      [i \in 0..1 |-> [ViewOf(<<2 + 2 * i, 2, 3>>, -2 + i, 1 + i) EXCEPT !.pose.orientation = <<0, 1, 0, 0>>]] }

VwInitApp ==
    /\ pc = "start"
    /\ InitApp("none")
    /\ pc' = "api"

VwRuntimeEvent ==
    /\ pc = "api"
    /\ \E ev \in FrameEvents : RuntimeEvent(ev)

VwAppShouldClose ==
    /\ pc = "api"
    /\ eventQueue # <<>>
    /\ AppShouldClose(Len(eventQueue))
    /\ UNCHANGED pc

VwSetPlayerPosition ==
    /\ pc = "api"
    /\ \E position \in PlayerPositions : SetPlayerPosition(position)
    /\ UNCHANGED pc

VwSetPlayerYaw ==
    /\ pc = "api"
    /\ \E yaw \in PlayerYaws : SetPlayerYaw(yaw)
    /\ UNCHANGED pc

VwBeginVRMode ==
    /\ pc = "api"
    /\ \E vws \in RawViewSets : BeginVRMode(vws)
    /\ pc' = "frame"

VwEndVRMode ==
    /\ pc = "frame"
    /\ \E idx \in [0..1 -> ImageIndices] : EndVRMode(idx)
    /\ pc' = "api"

ViewNext ==
    \/ VwInitApp
    \/ VwRuntimeEvent
    \/ VwAppShouldClose
    \/ VwSetPlayerPosition
    \/ VwSetPlayerYaw
    \/ VwBeginVRMode
    \/ VwEndVRMode

ViewSpec == Init /\ [][ViewNext]_vars

\* The rotation of v about the vertical axis by deg degrees, in the sense of
\* the library's yaw (a yaw of 90 degrees turns the x axis into the z axis).
RotY(deg, v) == <<v[1] * CosDeg(deg) - v[3] * SinDeg(deg), v[2], v[1] * SinDeg(deg) + v[3] * CosDeg(deg)>>

\* The world position a view matrix with an orthonormal rotation part maps
\* to the view's origin.
EyeOf(view) ==
    <<-(view[0] * view[12] + view[1] * view[13] + view[2] * view[14]),
      -(view[4] * view[12] + view[5] * view[13] + view[6] * view[14]),
      -(view[8] * view[12] + view[9] * view[13] + view[10] * view[14])>>

EyeView(eye) == IF eye = 0 THEN vrState.headset.leftEyeView ELSE vrState.headset.rightEyeView

InRunningFrame == pc = "frame" /\ vrState.sessionRunning

\* C19: the view matrix BeginVRMode builds for an eye places the eye at
\* RotY(playerYaw) * P + playerPosition, P being the raw position the runtime
\* reports for the eye: P is rotated by the yaw first and the player
\* position added then; where the other order gives another point, the eye
\* is not at that point.
C19_RotateThenTranslate ==
    InRunningFrame =>
        \A eye \in 0..1 :
           LET P == vrState.views[eye].pose.position
               O == vrState.playerPosition
               yaw == vrState.playerYaw
           IN /\ EyeOf(EyeView(eye)) = Vector3Add(RotY(yaw, P), O)
              /\ RotY(yaw, O) # O => EyeOf(EyeView(eye)) # RotY(yaw, Vector3Add(P, O))

\* C19's case: a frame begun with the player at (3, 1, -2) and turned by 270
\* degrees and the eyes turned half around; the left eye, reported at
\* (2, 2, 3), is at (6, 3, -4), where the other order would put it at
\* (1, 3, -5).
C19_Witness ==
    /\ InRunningFrame
    /\ vrState.playerPosition = <<3, 1, -2>> /\ vrState.playerYaw = 270
    /\ vrState.views[0].pose = [position |-> <<2, 2, 3>>, orientation |-> <<0, 1, 0, 0>>]
    /\ EyeOf(EyeView(0)) = <<6, 3, -4>>
    /\ RotY(270, Vector3Add(<<2, 2, 3>>, <<3, 1, -2>>)) = <<1, 3, -5>>

\* The frame of the example: the player at (10, 0, 0), turned by 90 degrees,
\* the left eye reported at (0, 0, -1).
ExampleFrame ==
    /\ InRunningFrame
    /\ vrState.playerPosition = <<10, 0, 0>> /\ vrState.playerYaw = 90
    /\ vrState.views[0].pose.position = <<0, 0, -1>>

\* C20 as stated: with the player at (10, 0, 0) and a yaw of 90 degrees, the
\* raw position (0, 0, -1) is mapped to the eye position (10, 0, -1), and the
\* other order gives another point.
C20_ExampleEyePosition ==
    ExampleFrame =>
        /\ EyeOf(EyeView(0)) = <<10, 0, -1>>
        /\ RotY(90, Vector3Add(<<0, 0, -1>>, <<10, 0, 0>>)) # EyeOf(EyeView(0))

\* C20 amended: with the player at (10, 0, 0) and a yaw of 90 degrees, the
\* raw position (0, 0, -1) is mapped to the eye position (11, 0, 0): rotated
\* to (1, 0, 0), then moved by (10, 0, 0); the other order gives (1, 0, 10).
C20_ExampleEyePositionRotated ==
    ExampleFrame =>
        /\ EyeOf(EyeView(0)) = <<11, 0, 0>>
        /\ RotY(90, <<0, 0, -1>>) = <<1, 0, 0>>
        /\ RotY(90, Vector3Add(<<0, 0, -1>>, <<10, 0, 0>>)) = <<1, 0, 10>>

\* C20's case: the frame of the example has begun and its left view matrix
\* is the quarter turn with the translation that puts the eye at (11, 0, 0).
C20_Witness ==
    /\ ExampleFrame
    /\ vrState.views[0].pose.orientation = QuatIdentity
    /\ EyeView(0)[12] = 0 /\ EyeView(0)[13] = 0 /\ EyeView(0)[14] = 11
    /\ xrCalls[Len(xrCalls)].call = "xrLocateViews"

\* --------------------------------------------------------- the clear colour

\* The colour c (r, g, b, a in 0..255) as the four fractions glClearColor
\* would be given for it.
ClearColorOf(c) == [k \in 1..4 |-> <<c[k], 255>>]

SameColor(a, b) == \A k \in 1..4 : FracEq(a[k], b[k])

\* C21: every eye the last EndVRMode rendered was cleared to the clear
\* colour most recently set (the colour of SetVRClearColor, or the default
\* of InitApp when none was set).
C21_ClearUsesSetColor ==
    \A eye \in 0..1 :
       replayed[eye].ran => SameColor(replayed[eye].clear, ClearColorOf(vrState.clearColor))

\* ------------------------------------------------------------ grids

\* An application that draws grids of every slice count of SliceCounts in
\* frames it begins; after a DrawVRGrid(N, 2), pc is GridDrawn[N].

MaxSlices == 4

SliceCounts == 0..MaxSlices

GridDrawn == [N \in SliceCounts |-> "grid" \o ToString(N)]

GdInitApp ==
    /\ pc = "start"
    /\ InitApp("none")
    /\ pc' = "api"

GdRuntimeEvent ==
    /\ pc # "start"
    /\ \E ev \in FrameEvents : RuntimeEvent(ev)

GdAppShouldClose ==
    /\ pc # "start"
    /\ eventQueue # <<>>
    /\ AppShouldClose(Len(eventQueue))
    /\ pc' = "api"

GdBeginVRMode ==
    /\ pc # "start"
    /\ BeginVRMode(StereoViews)
    /\ pc' = "api"

GdDrawVRGrid ==
    /\ pc # "start"
    /\ \E N \in SliceCounts :
          /\ Draw(DrawVRGrid(vrState, drawCommands, N, 2))
          /\ pc' = GridDrawn[N]

GridNext ==
    \/ GdInitApp
    \/ GdRuntimeEvent
    \/ GdAppShouldClose
    \/ GdBeginVRMode
    \/ GdDrawVRGrid

GridSpec == Init /\ [][GridNext]_vars

\* A step that is DrawVRGrid(N, spacing) made while the session is running
\* and the buffer has room for 2 * (N + 1) commands.
GridDrawnWithRoom(N) ==
    /\ apiCalls'["Draw"] > apiCalls["Draw"]
    /\ pc' = GridDrawn[N]
    /\ vrState.sessionRunning
    /\ drawCommandCount + 2 * (N + 1) <= MAX_DRAW_COMMANDS

\* C22: while the session is running and the buffer has room,
\* DrawVRGrid(N, spacing) appends exactly 2 * (N + 1) commands, all of them
\* lines, and changes nothing else, for every N of 0..MaxSlices.
C22_GridAppendsTwoLinesPerSlice ==
    [][\A N \in SliceCounts :
          GridDrawnWithRoom(N) =>
             /\ drawCommandCount' = drawCommandCount + 2 * (N + 1)
             /\ IsPrefix(drawCommands, drawCommands')
             /\ \A i \in (drawCommandCount + 1)..drawCommandCount' : drawCommands'[i].type = CMD_DRAW_LINE
             /\ UNCHANGED <<vrState, htState, live, faults, rtLog, eventQueue, xrCalls, replayed>>]_vars

\* ------------------------------------------- a runtime that withholds an image

\* android_main with a runtime that may never make a swapchain image
\* available: EndVRMode then stays in xrWaitSwapchainImage.  The application
\* thread runs: at a position where its next call returns it does not stay
\* for ever (weak fairness of its advance); the runtime is free to queue
\* events or not.

StallInitApp ==
    /\ pc = "start"
    /\ InitApp("none")
    /\ pc' = "initHands"

StallInitHandTracking ==
    /\ pc = "initHands"
    /\ \E o \in {"ok", "unsupported"} : InitHandTracking(o)
    /\ pc' = "clearColor"

StallRuntimeEvent ==
    /\ pc \in {"top", "draw"}
    /\ \E ev \in LoopEvents : RuntimeEvent(ev)

StallSyncControllers ==
    /\ pc = "sync"
    /\ SyncControllers([i \in 0..1 |-> HandSample(TRUE, TRUE, <<1, 1, -1>>, QuatIdentity, TRUE, <<0, 0, 1>>, FALSE)], FALSE, LoopHead)
    /\ pc' = "hands"

StallUpdateHandTracking ==
    /\ pc = "hands"
    /\ IsHandTrackingActive(htState)
    /\ UpdateHandTracking([i \in 0..1 |-> NotLocated(TRUE)])
    /\ pc' = "draw"

StallEndVRModeWaitsForever ==
    /\ pc = "end"
    /\ \E idx \in [0..1 -> ImageIndices], k \in 0..1 : EndVRModeWaitsForever(idx, k)
    /\ pc' = "xrWaitSwapchainImage"

\* The steps of the application.
StallAppStep ==
    \/ StallInitApp
    \/ StallInitHandTracking
    \/ LoopSetVRClearColor
    \/ LoopAppShouldClose
    \/ LoopBeginVRMode
    \/ StallSyncControllers
    \/ StallUpdateHandTracking
    \/ LoopNoHandTracking
    \/ LoopDrawVRCuboid
    \/ LoopInLoopReturns
    \/ LoopEndVRMode
    \/ StallEndVRModeWaitsForever
    \/ LoopShutdownHandTracking
    \/ LoopCloseApp

StallNext ==
    \/ StallAppStep
    \/ StallRuntimeEvent

\* The positions of android_main from which the next call returns: all but
\* the wait inside EndVRMode and the end of android_main.
RunningPositions == {"start", "initHands", "clearColor", "top", "begin", "sync", "hands", "draw", "end", "shutdownHands", "close"}

Positions == RunningPositions \cup {"xrWaitSwapchainImage", "done"}

\* The application moves on from a position where its call returns.
Advance == pc \in RunningPositions /\ pc' \in Positions \ {pc}

StallSpec == Init /\ [][StallNext]_vars /\ WF_pc(Advance)

\* C23: EndVRMode always returns, the runtime making the swapchain images
\* available or not: an iteration of the main loop that has reached
\* EndVRMode reaches the next AppShouldClose.
C23_EndVRModeReturns == (pc = "end") ~> (pc = "top")

\* ------------------------------------------------- the running flag

ReadyOrStopping(ev) == ev.type = "SESSION_STATE_CHANGED" /\ ev.state \in {"READY", "STOPPING"}

\* Whether the session runs once the events evs have been processed, when
\* it ran or not (running) before them: the last READY or STOPPING decides.
RunningAfter(evs, running) ==
    LET found == {i \in 1..Len(evs) : ReadyOrStopping(evs[i])}
    IN IF found = {} THEN running
       ELSE evs[CHOOSE i \in found : \A j \in found : j <= i].state = "READY"

\* C24: sessionRunning is false when InitApp returns; the events a poll
\* processes leave it true if the last READY or STOPPING session state among
\* them is READY, false if it is STOPPING, and as it was if there is none
\* (every other session state and event type); processing them raises no
\* error in the runtime; nothing but a poll changes the flag.  Hence
\* sessionRunning is true exactly when the most recent READY or STOPPING
\* processed since InitApp is READY.
C24_RunningFollowsReadyAndStopping ==
    [][/\ pc = "start" => ~vrState'.sessionRunning
       /\ PollStep =>
             /\ vrState'.sessionRunning = RunningAfter(Delivered, vrState.sessionRunning)
             /\ faults' = faults /\ live' = live
       /\ (~PollStep /\ pc # "start") => vrState'.sessionRunning = vrState.sessionRunning]_vars

\* C24's case: the session was begun on READY, a frame was begun in it, and
\* the SYNCHRONIZED state a later poll processed has left it running.
C24_Witness ==
    /\ pc = "polled"
    /\ vrState.sessionRunning /\ vrState.sessionState = "SYNCHRONIZED"
    /\ xrCalls = <<>> /\ eventQueue = <<>>
    /\ rtClock >= 1

\* ------------------------------------------------------- draining the queue

\* An application that polls and runs a frame, in turn, while the runtime
\* lets up to MaxPending events pile up between two polls.  pc is "api"
\* before a poll, "polled" after a poll in which no xrPollEvent failed,
\* "pollFailed" after one in which an xrPollEvent failed, "frame" between
\* BeginVRMode and EndVRMode.

MaxPending == 3

DrainEvents == {StateChanged("READY"), StateChanged("STOPPING"), StateChanged("FOCUSED"), StateChanged("EXITING"), InteractionProfileChanged}

DnInitApp ==
    /\ pc = "start"
    /\ InitApp("none")
    /\ pc' = "api"

DnRuntimeEvent ==
    /\ pc = "api"
    /\ \E ev \in DrainEvents : RuntimeEventWithin(ev, MaxPending)

\* xrPollEvent delivers every pending event, then XR_EVENT_UNAVAILABLE.
DnAppShouldClose ==
    /\ pc = "api"
    /\ AppShouldClose(Len(eventQueue))
    /\ pc' = "polled"

\* xrPollEvent fails with n events delivered and others pending.
DnAppShouldCloseFails ==
    /\ pc = "api"
    /\ \E n \in 0..(Len(eventQueue) - 1) : AppShouldClose(n)
    /\ pc' = "pollFailed"

DnBeginVRMode ==
    /\ pc \in {"polled", "pollFailed"}
    /\ BeginVRMode(StereoViews)
    /\ pc' = "frame"

DnEndVRMode ==
    /\ pc = "frame"
    /\ \E idx \in [0..1 -> ImageIndices] : EndVRMode(idx)
    /\ pc' = "api"

DrainNext ==
    \/ DnInitApp
    \/ DnRuntimeEvent
    \/ DnAppShouldClose
    \/ DnAppShouldCloseFails
    \/ DnBeginVRMode
    \/ DnEndVRMode

DrainSpec == Init /\ [][DrainNext]_vars

\* The state after the events evs[1], ..., evs[k] have been applied to vs, one
\* after the other in that order.
RECURSIVE AppliedInOrder(_, _, _)
AppliedInOrder(vs, evs, k) ==
    IF k = 0 THEN vs ELSE HandleEvent(AppliedInOrder(vs, evs, k - 1), evs[k])

\* The session calls the events evs make necessary, in the order of evs.
SessionCallsOf(evs) ==
    LET about == SelectSeq(evs, ReadyOrStopping)
    IN [i \in 1..Len(about) |->
          Call(IF about[i].state = "READY" THEN "xrBeginSession" ELSE "xrEndSession", -1, -1)]

\* C25: a poll in which no xrPollEvent fails returns (whatever the number
\* of pending events, none included), has applied every event that was
\* pending, in the order of delivery, and leaves no event pending.
C25_PollDrainsInOrder ==
    [][(pc = "api" /\ pc' = "polled") =>
          /\ eventQueue' = <<>>
          /\ vrState' = AppliedInOrder(vrState, eventQueue, Len(eventQueue))
          /\ xrCalls' = SessionCallsOf(eventQueue)]_vars

\* C25's case: a poll has found READY and, behind it, STOPPING pending and
\* returned with the session begun and ended again, in that order, and the
\* queue empty.
C25_Witness ==
    /\ pc = "polled"
    /\ eventQueue = <<>>
    /\ xrCalls = <<Call("xrBeginSession", -1, -1), Call("xrEndSession", -1, -1)>>
    /\ vrState.sessionState = "STOPPING" /\ ~vrState.sessionRunning /\ vrState.sessionFocused

\* C26: a poll in which an xrPollEvent fails returns, with the events
\* delivered before the failure applied and nothing else changed: the
\* failing call changes neither the session state, the running flag, the
\* focus flag nor the exit flag, and it removes no event from the queue.
C26_FailedPollIsNoOp ==
    [][(pc = "api" /\ pc' = "pollFailed") =>
          /\ vrState' = AppliedInOrder(vrState, Delivered, Len(Delivered))
          /\ Delivered = <<>> =>
                /\ vrState'.sessionState = vrState.sessionState
                /\ vrState'.sessionRunning = vrState.sessionRunning
                /\ vrState'.sessionFocused = vrState.sessionFocused
                /\ vrState'.shouldExit = vrState.shouldExit
          /\ eventQueue = Delivered \o eventQueue'
          /\ faults' = faults /\ live' = live]_vars

\* C26's case: in a running session a poll has failed on its first
\* xrPollEvent with EXITING pending; the exit flag is not set and the frame
\* after the poll has begun.
C26_Witness ==
    /\ pc = "frame"
    /\ eventQueue # <<>> /\ eventQueue[1] = StateChanged("EXITING")
    /\ vrState.sessionRunning /\ ~vrState.shouldExit
    /\ xrCalls[Len(xrCalls)].call = "xrLocateViews"

\* ------------------------------------------------- the order of InitApp

\* The step of InitApp that creates the resource r: 1 the graphics context,
\* 3 the instance (2 is the loader initialization, which creates nothing),
\* 6 the session, 7 the stage space, 8 the head space, 9 the actions, 10 the
\* swapchains.
StepOf(r) ==
    CASE r \in EglResources -> 1
      [] r = "instance" -> 3
      [] r = "session" -> 6
      [] r = "stageSpace" -> 7
      [] r = "headSpace" -> 8
      [] r \in {"actionSet", "leftHandSpace", "rightHandSpace"} -> 9
      [] OTHER -> 10

\* InitApp has returned and nothing has been called since.
InitAppReturned == pc \in {"api", "failed"}

\* C27: in the runtime's log of an InitApp call the creations follow the
\* order of the steps (graphics context, instance, session, stage space, head
\* space, actions, swapchains), no creation and no further call follows a
\* call that failed, and InitApp has returned true only if no call failed
\* and every resource was created.
C27_InitAppStrictOrder ==
    InitAppReturned =>
        /\ \A i, j \in 1..Len(rtLog) :
              (i < j /\ rtLog[i][1] = "create" /\ rtLog[j][1] = "create")
                 => StepOf(rtLog[i][2]) <= StepOf(rtLog[j][2])
        /\ \A i, j \in 1..Len(rtLog) :
              (i < j /\ rtLog[i][1] = "failed") => rtLog[j][1] = "destroy"
        /\ vrState.initialized =>
              /\ \A i \in 1..Len(rtLog) : rtLog[i][1] = "create"
              /\ live = Resources

\* ------------------------------------------------- the order of CloseApp

\* The kind of a resource, as the order of creation groups them.
KindOf(r) ==
    CASE r \in EglResources -> "graphics context"
      [] r = "instance" -> "instance"
      [] r = "session" -> "session"
      [] r \in {"stageSpace", "headSpace"} -> "reference spaces"
      [] r \in {"actionSet", "leftHandSpace", "rightHandSpace"} -> "actions"
      [] OTHER -> "swapchains"

\* The kinds of the resources a log creates (what = "create") or destroys
\* (what = "destroy"), in the log's order, each run of one kind once.
RECURSIVE KindsIn(_, _)
KindsIn(log, what) ==
    IF log = <<>> THEN <<>>
    ELSE LET rest == KindsIn(Tail(log), what)
             kind == KindOf(Head(log)[2])
         IN IF Head(log)[1] # what \/ (rest # <<>> /\ Head(rest) = kind) THEN rest
            ELSE <<kind>> \o rest

Reverse(seq) == [i \in 1..Len(seq) |-> seq[Len(seq) + 1 - i]]

\* A step that is CloseApp after an InitApp that succeeded, and what the
\* runtime's log gains in it.
ClosesInitialized == pc = "api" /\ pc' = "closed"

LoggedInStep == SubSeq(rtLog', Len(rtLog) + 1, Len(rtLog'))

\* C28 as stated: CloseApp after a successful InitApp destroys the kinds of
\* resources in the exact reverse of the order they were created in
\* (created: graphics context, instance, session, reference spaces, actions,
\* swapchains).
C28_ReverseOfCreation ==
    [][ClosesInitialized =>
          /\ KindsIn(rtLog, "create") = <<"graphics context", "instance", "session", "reference spaces", "actions", "swapchains">>
          /\ KindsIn(LoggedInStep, "destroy") = Reverse(KindsIn(rtLog, "create"))]_vars

\* C28 amended: CloseApp after a successful InitApp destroys, in this order,
\* the swapchains (eye 0, then eye 1, each with its framebuffer, depth
\* buffer and image array first), the two hand action spaces, the stage
\* and the head space, the action set, the session, the instance and the
\* graphics context (context, surface, display): every resource before the
\* one it was created from, the action set after the reference spaces.
C28_ChildrenFirst ==
    [][ClosesInitialized =>
          /\ LoggedInStep =
                [i \in 1..18 |-> <<"destroy",
                    <<"framebuffer0", "depthBuffer0", "swapchainImages0", "swapchain0",
                      "framebuffer1", "depthBuffer1", "swapchainImages1", "swapchain1",
                      "leftHandSpace", "rightHandSpace", "stageSpace", "headSpace", "actionSet",
                      "session", "instance", "eglContext", "eglSurface", "eglDisplay">>[i]>>]
          /\ KindsIn(LoggedInStep, "destroy") =
                <<"swapchains", "actions", "reference spaces", "actions", "session", "instance", "graphics context">>
          /\ faults' = {} /\ live' = {}]_vars

\* C28's case: CloseApp has run after an InitApp that created all eighteen
\* resources; the log ends with their eighteen destructions, the display
\* last.
C28_Witness ==
    /\ pc = "closed"
    /\ Len(rtLog) = 36
    /\ rtLog[1] = <<"create", "eglDisplay">> /\ rtLog[18][1] = "create"
    /\ rtLog[19] = <<"destroy", "framebuffer0">> /\ rtLog[36] = <<"destroy", "eglDisplay">>
    /\ live = {} /\ faults = {}

\* ------------------------------------------------- a teardown that meets failures

\* InitApp, then CloseApp while the runtime fails to destroy some of the
\* resources: a swapchain, a framebuffer, spaces, the action set, the
\* session, the instance, the graphics context.  pc is "api" after InitApp
\* and "closed" after CloseApp.

FailingDestroys == SUBSET {"swapchain1", "framebuffer0", "leftHandSpace", "stageSpace", "actionSet", "session", "instance", "eglContext"}

TdInitApp ==
    /\ pc = "start"
    /\ InitApp("none")
    /\ pc' = "api"

TdCloseApp ==
    /\ pc = "api"
    /\ \E failing \in FailingDestroys : CloseAppFailing(failing)
    /\ pc' = "closed"

TeardownNext ==
    \/ TdInitApp
    \/ TdCloseApp

TeardownSpec == Init /\ [][TeardownNext]_vars

IsDestroy(entry) == entry[1] = "destroy"

IsFailure(entry) == entry[1] = "failed"

\* C29: whichever destructions fail, CloseApp attempts the destruction of
\* every resource, each once and in the order of a CloseApp that meets no
\* failure, and returns with every handle null and the library no longer
\* initialized.
C29_TeardownAttemptsEverything ==
    [][ClosesInitialized =>
          /\ SelectSeq(LoggedInStep, IsDestroy) =
                [i \in 1..18 |-> <<"destroy",
                    <<"framebuffer0", "depthBuffer0", "swapchainImages0", "swapchain0",
                      "framebuffer1", "depthBuffer1", "swapchainImages1", "swapchain1",
                      "leftHandSpace", "rightHandSpace", "stageSpace", "headSpace", "actionSet",
                      "session", "instance", "eglContext", "eglSurface", "eglDisplay">>[i]>>]
          /\ \A r \in Resources : ~vrState'.h[r]
          /\ ~vrState'.initialized]_vars

\* C29's case: CloseApp has met the failure of the destruction of a
\* swapchain, a space, the session and the instance (which stay alive), and
\* has gone on to the display.
C29_Witness ==
    /\ pc = "closed"
    /\ {rtLog[i][2] : i \in {j \in 1..Len(rtLog) : IsFailure(rtLog[j])}} = {"swapchain1", "stageSpace", "session", "instance"}
    /\ rtLog[Len(rtLog)] = <<"destroy", "eglDisplay">>
    /\ live = {"swapchain1", "stageSpace", "session", "instance"}

\* ------------------------------------------------- leaving the main loop

\* The positions of android_main inside an iteration of the main loop.
InFrame == {"begin", "sync", "hands", "draw", "end", "xrWaitSwapchainImage"}

\* C30: once the exit flag is set, android_main is not inside an iteration
\* of its loop (no frame is in progress: the exit flag is set by
\* AppShouldClose alone, at the top of the loop, after the frame before it
\* has reached its xrEndFrame), no BeginVRMode and no xrWaitFrame follows,
\* and ShutdownHandTracking and CloseApp run to completion: android_main
\* reaches its end with the hand trackers and every resource destroyed.
C30_ExitEndsTheLoop ==
    /\ [](vrState.shouldExit => pc \notin InFrame)
    /\ [][vrState.shouldExit =>
             /\ apiCalls'["BeginVRMode"] = apiCalls["BeginVRMode"]
             /\ rtClock' = rtClock
             /\ \A i \in 1..Len(xrCalls') : xrCalls'[i].call # "xrWaitFrame"]_vars
    /\ vrState.shouldExit ~>
          (pc = "done" /\ ~vrState.initialized /\ ~htState.initialized /\ live = {} /\ faults = {})

\* C30's case: android_main has ended after a loop that ran a frame with
\* hand tracking enabled and was left on the exit flag; the hand trackers
\* were destroyed, then the library's resources.
C30_Witness ==
    /\ pc = "done"
    /\ vrState.shouldExit /\ vrState.sessionRunning
    /\ rtClock >= 1 /\ replayed[1].ran
    /\ \E i, j \in 1..Len(rtLog) :
          i < j /\ rtLog[i] = <<"destroy", "handTracker1">> /\ rtLog[j] = <<"destroy", "framebuffer0">>
    /\ live = {}

\* ------------------------------------------- the images of the swapchains

\* The frame API with a runtime whose acquire and wait calls may fail: InitApp,
\* the session made ready, then frames of BeginVRMode, one draw call and
\* EndVRMode.  pc is "frame" between BeginVRMode and EndVRMode.

\* Values the uninitialized local imageIndex of EndVRMode may hold.
UninitializedIndices == {0, 5}

SwapAnswers ==
    {Answer(TRUE, w, i) : w \in BOOLEAN, i \in ImageIndices}
        \cup {Answer(FALSE, FALSE, i) : i \in UninitializedIndices}

SwInitApp ==
    /\ pc = "start"
    /\ InitApp("none")
    /\ pc' = "api"

SwRuntimeEvent ==
    /\ pc = "api"
    /\ \E ev \in FrameEvents : RuntimeEvent(ev)

SwAppShouldClose ==
    /\ pc = "api"
    /\ eventQueue # <<>>
    /\ AppShouldClose(Len(eventQueue))
    /\ pc' = "api"

SwBeginVRMode ==
    /\ pc = "api"
    /\ BeginVRMode(StereoViews)
    /\ pc' = "frame"

SwDrawVRCuboid ==
    /\ pc = "frame"
    /\ drawCommands = <<>>
    /\ \E position \in CubePositions : Draw(DrawVRCuboid(vrState, drawCommands, position, <<1, 1, 1>>, RED))
    /\ pc' = "frame"

SwEndVRMode ==
    /\ pc = "frame"
    /\ \E ans \in [0..1 -> SwapAnswers] : EndVRModeAnswered(ans)
    /\ pc' = "api"

SwapNext ==
    \/ SwInitApp
    \/ SwRuntimeEvent
    \/ SwAppShouldClose
    \/ SwBeginVRMode
    \/ SwDrawVRCuboid
    \/ SwEndVRMode

SwapSpec == Init /\ [][SwapNext]_vars

\* The calls name(eye) among the first n of calls that succeeded.
SucceededCalls(calls, n, name, eye) ==
    {k \in 1..n : calls[k].call = name /\ calls[k].who = eye /\ calls[k].flags = {}}

\* The number of images of the swapchain of an eye the renderer holds after
\* the first n of calls: those acquired and not released.
Owned(calls, n, eye) ==
    Cardinality(SucceededCalls(calls, n, "xrAcquireSwapchainImage", eye))
        - Cardinality(SucceededCalls(calls, n, "xrReleaseSwapchainImage", eye))

\* C31: at every point of EndVRMode the renderer holds at most one swapchain
\* image; from the acquire to the release of an eye (at its wait and its
\* RenderEye) it holds exactly one image of that eye's swapchain; the image
\* of eye 0 is released before that of eye 1 is acquired; and no image is
\* held when xrEndFrame is called.
C31_OneImageOwned ==
    \A n \in 1..Len(xrCalls) :
        LET c == xrCalls[n]
        IN /\ Owned(xrCalls, n, 0) + Owned(xrCalls, n, 1) <= 1
           /\ c.call \in {"xrWaitSwapchainImage", "RenderEye"} => Owned(xrCalls, n, c.who) = 1
           /\ c.call = "xrAcquireSwapchainImage" /\ c.who = 1 => Owned(xrCalls, n - 1, 0) = 0
           /\ c.call = "xrEndFrame" => Owned(xrCalls, n, 0) = 0 /\ Owned(xrCalls, n, 1) = 0

\* C31 when every acquire and wait succeeded.
AllSucceeded == \A n \in 1..Len(xrCalls) : xrCalls[n].flags = {}

C31_OneImageOwnedOnSuccess == AllSucceeded => C31_OneImageOwned

\* C32: RenderEye runs for an eye only after the acquire and the wait for the
\* image of that eye succeeded, and with the index the acquire reported;
\* xrReleaseSwapchainImage is called only for an image that is held; and
\* EndVRMode of a running session ends with xrEndFrame.
C32_FailedAcquireDropsTheEye ==
    /\ \A n \in 1..Len(xrCalls) :
          LET c == xrCalls[n]
          IN /\ c.call = "RenderEye" =>
                  /\ n > 2
                  /\ xrCalls[n - 2] = Call("xrAcquireSwapchainImage", c.who, -1)
                  /\ xrCalls[n - 1] = Call("xrWaitSwapchainImage", c.who, -1)
             /\ c.call = "xrReleaseSwapchainImage" => Owned(xrCalls, n - 1, c.who) >= 1
    /\ \A eye \in 0..1 : replayed[eye].ran => replayed[eye].image \in ImageIndices
    /\ pc = "api" /\ apiCalls["EndVRMode"] > 0 /\ vrState.sessionRunning /\ xrCalls # <<>> =>
          xrCalls[Len(xrCalls)].call \in {"xrEndFrame", "xrPollEvent"}

\* ------------------------------------------------- validity of hand poses

\* C33: after a SyncControllers made while the session is running, a
\* controller has isTracking true only if the runtime flagged the pose of its
\* hand as position-valid and as orientation-valid; a pose not flagged
\* orientation-valid leaves the controller with isTracking false and with the
\* orientation it had.
C33_TrackingNeedsBothFlags ==
    [][RunningSync =>
        \A i \in 0..1 :
           LET flags == LatestLocationFlags(xrCalls', i)
           IN /\ GetController(vrState', i).isTracking =>
                    {"POSITION_VALID", "ORIENTATION_VALID"} \subseteq flags
              /\ "ORIENTATION_VALID" \notin flags =>
                    /\ ~GetController(vrState', i).isTracking
                    /\ GetController(vrState', i).orientation = GetController(vrState, i).orientation]_vars

\* What UpdateInput does: isTracking follows the position flag alone.
C33_TrackingFollowsPositionFlag ==
    [][RunningSync =>
        \A i \in 0..1 :
           GetController(vrState', i).isTracking <=> "POSITION_VALID" \in LatestLocationFlags(xrCalls', i)]_vars

\* ------------------------------------- UpdateHandTracking when not active

\* A step that is an UpdateHandTracking call made while hand tracking is
\* not initialized or the session is not running.
InactiveHandUpdate == HandUpdate /\ (~htState.initialized \/ ~IsVRSessionRunning(vrState))

MaxTrackerCreations == 2

\* The number of times resource r was created in the log.
Creations(log, r) == Cardinality({k \in 1..Len(log) : log[k] = <<"create", r>>})

Destructions(log, r) == Cardinality({k \in 1..Len(log) : log[k] = <<"destroy", r>>})

HdInitApp ==
    /\ pc = "start"
    /\ InitApp("none")
    /\ pc' = "api"

HdRuntimeEvent ==
    /\ pc # "start"
    /\ \E ev \in FrameEvents : RuntimeEvent(ev)

HdAppShouldClose ==
    /\ pc # "start"
    /\ eventQueue # <<>>
    /\ AppShouldClose(Len(eventQueue))
    /\ pc' = "api"

HdBeginVRMode ==
    /\ pc # "start"
    /\ BeginVRMode(StereoViews)
    /\ pc' = "api"

HdInitHandTracking ==
    /\ pc # "start"
    /\ Creations(rtLog, HandTracker(0)) < MaxTrackerCreations
    /\ \E o \in HandTrackingOutcomes :
          /\ InitHandTracking(o)
          /\ pc' = IF InitHandTrackingResult(htState, vrState, ResState(vrState), o).ok
                   THEN "initTrue" ELSE "initFalse"

HdUpdateHandTracking ==
    /\ pc # "start"
    /\ \E located \in LoopLocated : UpdateHandTracking(located)
    /\ pc' = "api"

HdShutdownHandTracking ==
    /\ pc # "start"
    /\ ShutdownHandTracking
    /\ pc' = IF htState.initialized THEN "shutdown" ELSE "api"

HandNext ==
    \/ HdInitApp
    \/ HdRuntimeEvent
    \/ HdAppShouldClose
    \/ HdBeginVRMode
    \/ HdInitHandTracking
    \/ HdUpdateHandTracking
    \/ HdShutdownHandTracking

HandSpec == Init /\ [][HandNext]_vars

\* ShutdownHandTracking has shut hand tracking down: the tracker of the right
\* hand, which no other call destroys, was destroyed.
HasShutDown == Destructions(rtLog, HandTracker(1)) > 0

\* C35: once ShutdownHandTracking has shut hand tracking down, no later
\* call makes hand tracking initialized or creates a hand tracker again
\* (ShutDown is terminal).
C35_ShutDownIsTerminal ==
    HasShutDown => ~htState.initialized /\ live \cap HandTrackerResources = {}

\* What the code keeps of the lifecycle: hand tracking becomes initialized
\* by a successful InitHandTracking alone and stops being initialized by
\* ShutdownHandTracking alone, and it is initialized exactly when both
\* trackers exist.
C35_InitializedBetweenInitAndShutdown ==
    /\ [][/\ (~htState.initialized /\ htState'.initialized) => pc' = "initTrue"
          /\ (htState.initialized /\ ~htState'.initialized) => pc' = "shutdown"]_vars
    /\ [](htState.initialized <=> HandTrackerResources \subseteq live)

\* C40: an InitHandTracking call made when hand tracking is initialized
\* returns true and changes nothing: no tracker is created, the tracker
\* handles and the hand snapshots are as they were; and in every state each
\* hand has at most one tracker that was created and not destroyed.
C40_InitHandTrackingIdempotent ==
    /\ [][(htState.initialized /\ pc' \in {"initTrue", "initFalse"}) =>
             /\ pc' = "initTrue"
             /\ htState' = htState
             /\ rtLog' = rtLog /\ live' = live /\ faults' = faults]_vars
    /\ [](\A hand \in 0..1 :
             Creations(rtLog, HandTracker(hand)) - Destructions(rtLog, HandTracker(hand)) <= 1)

\* C40's case: InitHandTracking has just returned true on hand tracking that
\* was initialized before the call (the left hand has been tracked since),
\* each tracker created once and the tracked hand as it was.
C40_Witness ==
    /\ pc = "initTrue"
    /\ htState.initialized
    /\ htState.hands[0].isTracking /\ htState.hands[0].isPinching
    /\ \A hand \in 0..1 : Creations(rtLog, HandTracker(hand)) = 1 /\ HandTracker(hand) \in live

\* ------------------------------------------- the published eye positions

EyePosition(eye) == IF eye = 0 THEN GetHeadset(vrState).leftEyePosition ELSE GetHeadset(vrState).rightEyePosition

\* C36: in a running frame the eye position of the headset snapshot is, for
\* each eye, RotY(playerYaw) * P + playerPosition, P being the raw position
\* the runtime reported for the eye in this frame, and it is the eye
\* position the eye's view matrix encodes.
C36_EyePositionHasPlayerOffset ==
    InRunningFrame =>
        \A eye \in 0..1 :
           /\ EyePosition(eye) = Vector3Add(RotY(vrState.playerYaw, vrState.views[eye].pose.position), vrState.playerPosition)
           /\ EyePosition(eye) = EyeOf(EyeView(eye))

\* What BeginVRMode publishes: the raw position the runtime reported for the
\* eye in this frame.
C36_EyePositionIsRaw ==
    InRunningFrame => \A eye \in 0..1 : EyePosition(eye) = vrState.views[eye].pose.position

\* --------------------------------------- moving the player within a frame

\* An application that moves and turns the player only between BeginVRMode
\* and EndVRMode: pc is "api" between two frames, where it polls the events,
\* and "frame" from BeginVRMode to EndVRMode, where it calls
\* SetPlayerPosition, SetPlayerYaw and MovePlayer.  MovePlayer is called on
\* a position that was set.

MovedPositions == {<<0, 0, 0>>, <<3, 1, -2>>}

MovedYaws == {0, 90}

PlayerSteps == {<<1, 0, 0>>, <<0, 2, 1>>}

MvSetPlayerPosition ==
    /\ pc = "frame"
    /\ \E position \in MovedPositions : SetPlayerPosition(position)
    /\ UNCHANGED pc

MvSetPlayerYaw ==
    /\ pc = "frame"
    /\ \E yaw \in MovedYaws : SetPlayerYaw(yaw)
    /\ UNCHANGED pc

MvMovePlayer ==
    /\ pc = "frame"
    /\ vrState.playerPosition \in MovedPositions
    /\ \E step \in PlayerSteps : MovePlayer(step[1], step[2], step[3])
    /\ UNCHANGED pc

MoveNext ==
    \/ VwInitApp
    \/ VwRuntimeEvent
    \/ VwAppShouldClose
    \/ VwBeginVRMode
    \/ MvSetPlayerPosition
    \/ MvSetPlayerYaw
    \/ MvMovePlayer
    \/ VwEndVRMode

MoveSpec == Init /\ [][MoveNext]_vars

\* The view and projection matrices the headset snapshot holds for the eyes.
EyeMatrices(vs) ==
    <<vs.headset.leftEyeView, vs.headset.leftEyeProjection, vs.headset.rightEyeView, vs.headset.rightEyeProjection>>

\* C37: BeginVRMode of a running session builds the matrices of the eyes
\* from the views of the frame and the player offset at that call; no call
\* between BeginVRMode and EndVRMode (SetPlayerPosition, SetPlayerYaw,
\* MovePlayer) changes them; and EndVRMode replays each eye with them.  An
\* offset set within a frame is in the matrices from the next BeginVRMode on.
C37_FrameKeepsItsMatrices ==
    [][/\ (pc = "api" /\ pc' = "frame" /\ vrState.sessionRunning) =>
             EyeMatrices(vrState') =
                 <<CreateViewMatrix(vrState'.views[0].pose, vrState.playerPosition, vrState.playerYaw),
                   CreateProjectionMatrix(vrState'.views[0].fov, NearZ, FarZ),
                   CreateViewMatrix(vrState'.views[1].pose, vrState.playerPosition, vrState.playerYaw),
                   CreateProjectionMatrix(vrState'.views[1].fov, NearZ, FarZ)>>
       /\ (pc = "frame" /\ pc' = "frame") =>
             EyeMatrices(vrState') = EyeMatrices(vrState) /\ vrState'.views = vrState.views
       /\ (pc = "frame" /\ pc' = "api" /\ vrState.sessionRunning) =>
             /\ replayed'[0].ran /\ replayed'[1].ran
             /\ <<replayed'[0].view, replayed'[0].proj, replayed'[1].view, replayed'[1].proj>> = EyeMatrices(vrState)
             /\ EyeMatrices(vrState') = EyeMatrices(vrState)]_vars

\* C37's case: the second frame has been replayed with the offset that was
\* set within the first frame, position (3, 1, -2) and yaw 0; within the
\* second frame the player was moved to (5, 2, -2) and turned to 90 degrees,
\* which is in none of the matrices the eyes were replayed with.
C37_Witness ==
    /\ pc = "api"
    /\ apiCalls["EndVRMode"] = 2 /\ rtClock = 2
    /\ replayed[0].ran /\ replayed[1].ran
    /\ vrState.playerPosition = <<5, 2, -2>> /\ vrState.playerYaw = 90
    /\ replayed[0].view = CreateViewMatrix(vrState.views[0].pose, <<3, 1, -2>>, 0)
    /\ replayed[0].view # CreateViewMatrix(vrState.views[0].pose, vrState.playerPosition, vrState.playerYaw)

\* ------------------------------------------- the focus of the session

\* A runtime that follows the session lifecycle of OpenXR: IDLE, READY,
\* SYNCHRONIZED, VISIBLE, FOCUSED, back through VISIBLE and SYNCHRONIZED to
\* STOPPING and IDLE, from where it starts again or exits; the session may
\* be lost in any state.  The application polls, and runs frames of
\* BeginVRMode, one draw call and EndVRMode, whatever the state.

LegalNext(state) ==
    (CASE state = "UNKNOWN" -> {"IDLE"}
       [] state = "IDLE" -> {"READY", "EXITING"}
       [] state = "READY" -> {"SYNCHRONIZED"}
       [] state = "SYNCHRONIZED" -> {"VISIBLE", "STOPPING"}
       [] state = "VISIBLE" -> {"FOCUSED", "SYNCHRONIZED"}
       [] state = "FOCUSED" -> {"VISIBLE"}
       [] state = "STOPPING" -> {"IDLE"}
       [] OTHER -> {})
    \cup (IF state \in {"UNKNOWN", "EXITING", "LOSS_PENDING"} THEN {} ELSE {"LOSS_PENDING"})

\* The session state the runtime is in: the last it has announced.
RuntimeSessionState ==
    IF eventQueue = <<>> THEN vrState.sessionState ELSE eventQueue[Len(eventQueue)].state

LcInitApp ==
    /\ pc = "start"
    /\ InitApp("none")
    /\ pc' = "api"

LcRuntimeEvent ==
    /\ pc # "start"
    /\ \E state \in LegalNext(RuntimeSessionState) : RuntimeEventWithin(StateChanged(state), MaxPending)

LcAppShouldClose ==
    /\ pc = "api"
    /\ eventQueue # <<>>
    /\ AppShouldClose(Len(eventQueue))
    /\ pc' = "api"

LcBeginVRMode ==
    /\ pc = "api"
    /\ BeginVRMode(StereoViews)
    /\ pc' = "frame"

LcDrawVRCuboid ==
    /\ pc = "frame"
    /\ \E position \in CubePositions : Draw(DrawVRCuboid(vrState, drawCommands, position, <<1, 1, 1>>, NormalizeColor(RED)))
    /\ pc' = "frame"

LcEndVRMode ==
    /\ pc = "frame"
    /\ \E idx \in [0..1 -> ImageIndices] : EndVRMode(idx)
    /\ pc' = "api"

LifecycleNext ==
    \/ LcInitApp
    \/ LcRuntimeEvent
    \/ LcAppShouldClose
    \/ LcBeginVRMode
    \/ LcDrawVRCuboid
    \/ LcEndVRMode

LifecycleSpec == Init /\ [][LifecycleNext]_vars

\* vs with the focus flag the other way.
OtherFocus(vs) == [vs EXCEPT !.sessionFocused = ~vs.sessionFocused]

\* What a frame does in the state vs: the buffer after a draw call, the
\* matrices BeginVRMode would build, and what EndVRMode would replay and
\* call.
FrameWork(vs) ==
    LET eyes == UpdateEyes(vs, 0, vs.viewCount)
        r == EndVRModeEyes([vs |-> vs, calls |-> <<>>, rep |-> NoReplay], drawCommands, [i \in 0..1 |-> 0], 0)
    IN [draw |-> DrawVRCuboid(vs, drawCommands, <<0, 1, -2>>, <<1, 1, 1>>, NormalizeColor(RED)),
        matrices |-> EyeMatrices(eyes),
        replay |-> r.rep,
        calls |-> r.calls]

\* C38: under a runtime that follows the session lifecycle the focus flag is
\* set only while the session is running, and the focus flag has no part in
\* a frame: what is recorded, replayed and submitted is the same with the
\* flag the other way, and BeginVRMode, the draw call and EndVRMode do their
\* work exactly when the session is running.
C38_FocusOnlyWhileRunning ==
    /\ [](vrState.sessionFocused => vrState.sessionRunning)
    /\ [](FrameWork(OtherFocus(vrState)) = FrameWork(vrState))
    /\ [][/\ (pc = "api" /\ pc' = "frame") => (rtClock' = rtClock + 1 <=> vrState.sessionRunning)
          /\ (pc = "frame" /\ pc' = "frame" /\ drawCommands' # drawCommands) => vrState.sessionRunning
          /\ (pc = "frame" /\ pc' = "api") =>
                (xrCalls' # xrCalls /\ xrCalls'[Len(xrCalls')].call = "xrEndFrame" <=> vrState.sessionRunning)]_vars

\* C38's case: the session went through READY, SYNCHRONIZED and VISIBLE to
\* FOCUSED, and a frame with a cube was replayed and submitted since the
\* poll that set the focus flag.
C38_Witness ==
    /\ pc = "api"
    /\ vrState.sessionState = "FOCUSED" /\ vrState.sessionFocused /\ vrState.sessionRunning
    /\ xrCalls # <<>> /\ xrCalls[Len(xrCalls)].call = "xrEndFrame"
    /\ replayed[0].ran /\ Len(replayed[0].draws) = 1

\* The session stopped after it had the focus: the focus flag is down.
C38_StoppedWithoutFocus ==
    vrState.sessionState = "STOPPING" => ~vrState.sessionFocused /\ ~vrState.sessionRunning

\* ------------------------------------------------- one gesture at a time

\* The gestures of the fingers a hand shows.
FingerGestures(hand) ==
    (IF hand.isFist THEN {"isFist"} ELSE {})
        \cup (IF hand.isPointing THEN {"isPointing"} ELSE {})
        \cup (IF hand.isOpen THEN {"isOpen"} ELSE {})

\* C39: in every state each hand, tracked or not, shows at most one of
\* isFist, isPointing and isOpen.
C39_OneFingerGesture ==
    \A h \in 0..1 : Cardinality(FingerGestures(htState.hands[h])) <= 1

\* C39's case: a tracked hand with every finger joint valid and the index tip
\* beyond the threshold of pointing, 101 mm from the palm, the other tips at
\* 81 mm: the hand is open and is not pointing.
C39_Witness ==
    LET hand == htState.hands[0]
    IN /\ hand.isTracking /\ AllValid(hand, FingerJoints)
       /\ Dist(hand, HAND_JOINT_INDEX_TIP, HAND_JOINT_PALM) = 101
       /\ Dist(hand, HAND_JOINT_MIDDLE_TIP, HAND_JOINT_PALM) = 81
       /\ Dist(hand, HAND_JOINT_RING_TIP, HAND_JOINT_PALM) = 81
       /\ Dist(hand, HAND_JOINT_LITTLE_TIP, HAND_JOINT_PALM) = 81
       /\ FingerGestures(hand) = {"isOpen"}

====
